---- MODULE Spec2Model ----
(***************************************************************************)
(* Answer-key protection of exam_generator: the Vigenere-like cipher of    *)
(* exam_generator.internal.encryption, the QR payload codec, the option    *)
(* shuffle of exam_generator.internal.question_parser and the part of      *)
(* ExamGenerator (core.py) that ties them together.                        *)
(*                                                                         *)
(* A Python str is a sequence of one-character strings.  Python indices    *)
(* are 0-based; a sequence position is the Python index plus one.          *)
(***************************************************************************)
EXTENDS Integers, Sequences, FiniteSets, TLC

VARIABLES
    encryptor,      \* the AnswerKeyEncryption instance (alphabet, alphabet_index, alphabet_size)
    plaintext,      \* cipher run: the text handed to encrypt, or to decrypt as a ciphertext
    password,       \* cipher run: the password handed to encrypt and decrypt
    pc_cipher,      \* cipher run: "start", "encrypted", "decrypted"; "deciphered"; "both encrypted", "crossed"
    encrypted,      \* cipher run: outcome of encrypt
    decrypted,      \* cipher run: outcome of decrypt
    summary,        \* codec run: the answer summary (num_questions, total_points, answers)
    payload,        \* codec run: the plaintext payload string
    pc_codec,       \* codec run: "start", "encoded", "parsed"; "received", "scanned"; "packed"
    parsed_payload, \* codec run: outcome of parse_decrypted_qr_data
    options_before, \* shuffle run: the option list handed to the parser's helper
    options,        \* shuffle run: the option list, shuffled in place
    pc_shuffle,     \* shuffle run: "start", "shuffled", "classified"
    new_correct_index,  \* shuffle run: value returned by _shuffle_options
    is_true_false,  \* shuffle run: value returned by _is_true_false_question
    parser,         \* parser run: the QuestionParser instance (shuffle_options)
    content,        \* parser run: the question file content, as its lines
    pc_parser,      \* parser run: "start", "parsed"
    questions,      \* parser run: outcome of parse_from_string
    config,         \* ExamGenerator.config: the ExamConfig (total, password)
    generator,      \* ExamGenerator: shuffle_options, max_questions, _parsed_questions, _qr_data,
                    \* _qr_image_path, _temp_files
    raised,         \* exception raised by the last call on the generator, "none" if it returned
    scanned,        \* outcome of decrypt_qr_code on the generator's QR data, None before a scan
    attempt,        \* a password tried on the generator's QR data and the outcome of decrypt_qr_code with it
    last_call,      \* the last method called on the generator, "none" before the first call
    files,          \* the temporary files created so far, by name: the QR data of the image, None once deleted
    documents,      \* the PDFs generated since the last successful load: kind, questions rendered, QR embedded
    faults,         \* what went wrong outside the generator so far: "remove failed", "deleted externally"
    random_state,  \* the generator shared by the random module: the last seed and the shuffles drawn since
    random_orders,  \* the order random.shuffle leaves, for each state of the shared generator
    seeded_options,  \* seeded run: the option list of both callers
    pc_seeded,  \* seeded run: position of the caller, "idle" or "seeded"
    shuffle_runs,  \* seeded run: the shuffles made right after seeding (seed, options, new_correct_index)
    input_file,  \* legacy run: the content of the question file of the TestGenerator, as its lines
    test_generator,  \* legacy run: the TestGenerator (shuffle_options of its parser, config.total, _qr_data once set)
    student_pdf,  \* legacy run: the questions and the QR data of the last PDF written by generate_pdf
    answer_key_pdf,  \* legacy run: the questions and the QR data of the last PDF written by generate_answer_key_pdf
    legacy_calls,  \* legacy run: the last two methods called on the TestGenerator
    legacy_encrypted,  \* cipher run: outcome of encrypt_answer_data of encryption_utils
    cross_decrypted  \* cipher run: outcomes of decrypting the ciphertext of each implementation with the other

cipherVars == <<encryptor, plaintext, password, pc_cipher, encrypted, decrypted>>
codecVars == <<summary, payload, pc_codec, parsed_payload>>
shuffleVars == <<options_before, options, pc_shuffle, new_correct_index, is_true_false>>
parserVars == <<parser, content, pc_parser, questions>>
generatorVars == <<config, generator, raised, scanned, attempt, last_call, files, documents, faults>>
seededVars == <<random_state, random_orders, seeded_options, pc_seeded, shuffle_runs>>
legacyVars == <<input_file, test_generator, student_pdf, answer_key_pdf, legacy_calls>>
compatVars == <<legacy_encrypted, cross_decrypted>>
vars == <<cipherVars, codecVars, shuffleVars, parserVars, generatorVars, seededVars, legacyVars, compatVars>>

\* what a step of one component leaves alone
notCipherVars == <<codecVars, shuffleVars, parserVars, generatorVars, seededVars, legacyVars, compatVars>>
notCodecVars == <<cipherVars, shuffleVars, parserVars, generatorVars, seededVars, legacyVars, compatVars>>
notShuffleVars == <<cipherVars, codecVars, parserVars, generatorVars, seededVars, legacyVars, compatVars>>
notParserVars == <<cipherVars, codecVars, shuffleVars, generatorVars, seededVars, legacyVars, compatVars>>
notGeneratorVars == <<cipherVars, codecVars, shuffleVars, parserVars, seededVars, legacyVars, compatVars>>
notSeededVars == <<cipherVars, codecVars, shuffleVars, parserVars, generatorVars, legacyVars, compatVars>>
notLegacyVars == <<cipherVars, codecVars, shuffleVars, parserVars, generatorVars, seededVars, compatVars>>
\* what a step that compares the two cipher implementations leaves alone
notCipherCompatVars == <<codecVars, shuffleVars, parserVars, generatorVars, seededVars, legacyVars>>

-----------------------------------------------------------------------------
(* Bounds of the explored inputs. *)
MaxTextLen == 3
MaxKeyLen == 2
MaxCount == 3
MaxOptions == 4
MaxBlocks == 2
MaxQuestions == 2
MaxDraws == 1
MaxTempFiles == 2

-----------------------------------------------------------------------------
(* Generic helpers. *)

Range(s) == {s[i] : i \in 1..Len(s)}

RECURSIVE SeqsUpTo(_, _)
\* every sequence over S of length 0..n
SeqsUpTo(S, n) ==
    IF n = 0 THEN {<<>>}
    ELSE LET shorter == SeqsUpTo(S, n - 1)
         IN  shorter \cup {Append(s, c) : s \in {t \in shorter : Len(t) = n - 1}, c \in S}

\* outcome of a call: a returned value, or the exception raised
Returned(v) == [err |-> "none", val |-> v]
Raised(e) == [err |-> e, val |-> <<>>]
NoResult == Raised("not called")

\* Python's None, and a value that is not None
None == [none |-> TRUE]
Some(v) == [none |-> FALSE, value |-> v]

Min(a, b) == IF a < b THEN a ELSE b
Max(a, b) == IF a > b THEN a ELSE b

-----------------------------------------------------------------------------
(* string.digits, string.ascii_lowercase, string.ascii_uppercase,          *)
(* string.ascii_letters of the Python standard library.                    *)

digits == <<"0", "1", "2", "3", "4", "5", "6", "7", "8", "9">>

ascii_lowercase ==
    <<"a", "b", "c", "d", "e", "f", "g", "h", "i", "j", "k", "l", "m",
      "n", "o", "p", "q", "r", "s", "t", "u", "v", "w", "x", "y", "z">>

ascii_uppercase ==
    <<"A", "B", "C", "D", "E", "F", "G", "H", "I", "J", "K", "L", "M",
      "N", "O", "P", "Q", "R", "S", "T", "U", "V", "W", "X", "Y", "Z">>

ascii_letters == ascii_lowercase \o ascii_uppercase

\* encryption.py:10
ALPHABET == digits \o ascii_letters

\* encryption_utils.py:7, the alphabet of the first (script) implementation
LEGACY_ALPHABET == digits \o ascii_uppercase \o ascii_lowercase

-----------------------------------------------------------------------------
(* AnswerKeyEncryption *)

\* {ch: i for i, ch in enumerate(alphabet)}: the last position wins
BuildIndex(alphabet) ==
    [ch \in Range(alphabet) |->
        CHOOSE i \in 0..(Len(alphabet) - 1) :
            /\ alphabet[i + 1] = ch
            /\ \A j \in 0..(Len(alphabet) - 1) : alphabet[j + 1] = ch => j <= i]

\* AnswerKeyEncryption.__init__
NewAnswerKeyEncryption ==
    [alphabet       |-> ALPHABET,
     alphabet_index |-> BuildIndex(ALPHABET),
     alphabet_size  |-> Len(ALPHABET)]

\* the key indices with a character outside the alphabet counted as index 0
KeyIndices_Unfiltered(self, key) ==
    [i \in 1..Len(key) |->
        IF key[i] \in DOMAIN self.alphabet_index THEN self.alphabet_index[key[i]] ELSE 0]

\* [self.alphabet_index[c] for c in key if c in self.alphabet_index]
KeyIndices(self, key) ==
    LET kept == SelectSeq(key, LAMBDA c : c \in DOMAIN self.alphabet_index)
    IN  [i \in 1..Len(kept) |-> self.alphabet_index[kept[i]]]

\* EncryptChar with the key position advanced on every character, alphabet or not
EncryptChar_AdvanceAlways(self, char, key_indices, key_position) ==
    IF char \notin DOMAIN self.alphabet_index
    THEN [out |-> char, key_position |-> key_position + 1]
    ELSE LET plain_index  == self.alphabet_index[char]
             key_index    == key_indices[(key_position % Len(key_indices)) + 1]
             cipher_index == (plain_index + key_index) % self.alphabet_size
         IN  [out |-> self.alphabet[cipher_index + 1],
              key_position |-> key_position + 1]

\* EncryptChar with the key position never wrapped: past the end of the key the
\* last key index is used again
EncryptChar_NoWrap(self, char, key_indices, key_position) ==
    IF char \notin DOMAIN self.alphabet_index
    THEN [out |-> char, key_position |-> key_position]
    ELSE LET plain_index  == self.alphabet_index[char]
             key_index    == key_indices[IF key_position < Len(key_indices)
                                         THEN key_position + 1 ELSE Len(key_indices)]
             cipher_index == (plain_index + key_index) % self.alphabet_size
         IN  [out |-> self.alphabet[cipher_index + 1],
              key_position |-> key_position + 1]

\* one iteration of the loop of _vigenere_encrypt: the character appended and
\* the key position after it
EncryptChar(self, char, key_indices, key_position) ==
    IF char \notin DOMAIN self.alphabet_index
    THEN [out |-> char, key_position |-> key_position]
    ELSE LET plain_index  == self.alphabet_index[char]
             key_index    == key_indices[(key_position % Len(key_indices)) + 1]
             cipher_index == (plain_index + key_index) % self.alphabet_size
         IN  [out |-> self.alphabet[cipher_index + 1],
              key_position |-> key_position + 1]

\* DecryptChar with the key position advanced on every character, alphabet or not
DecryptChar_AdvanceAlways(self, char, key_indices, key_position) ==
    IF char \notin DOMAIN self.alphabet_index
    THEN [out |-> char, key_position |-> key_position + 1]
    ELSE LET cipher_index == self.alphabet_index[char]
             key_index    == key_indices[(key_position % Len(key_indices)) + 1]
             plain_index  == (cipher_index - key_index) % self.alphabet_size
         IN  [out |-> self.alphabet[plain_index + 1],
              key_position |-> key_position + 1]

\* one iteration of the loop of _vigenere_decrypt
DecryptChar(self, char, key_indices, key_position) ==
    IF char \notin DOMAIN self.alphabet_index
    THEN [out |-> char, key_position |-> key_position]
    ELSE LET cipher_index == self.alphabet_index[char]
             key_index    == key_indices[(key_position % Len(key_indices)) + 1]
             plain_index  == (cipher_index - key_index) % self.alphabet_size
         IN  [out |-> self.alphabet[plain_index + 1],
              key_position |-> key_position + 1]

RECURSIVE EncryptLoop(_, _, _, _, _)
\* the for loop of _vigenere_encrypt from character i on
EncryptLoop(self, text, key_indices, i, key_position) ==
    IF i > Len(text) THEN <<>>
    ELSE LET step == EncryptChar(self, text[i], key_indices, key_position)
         IN  <<step.out>> \o EncryptLoop(self, text, key_indices, i + 1, step.key_position)

RECURSIVE DecryptLoop(_, _, _, _, _)
\* the for loop of _vigenere_decrypt from character i on
DecryptLoop(self, text, key_indices, i, key_position) ==
    IF i > Len(text) THEN <<>>
    ELSE LET step == DecryptChar(self, text[i], key_indices, key_position)
         IN  <<step.out>> \o DecryptLoop(self, text, key_indices, i + 1, step.key_position)

\* AnswerKeyEncryption._vigenere_encrypt
VigenereEncrypt(self, text, key) ==
    LET key_indices == KeyIndices(self, key)
    IN  IF Len(key_indices) = 0
        THEN Raised("EncryptionError")
        ELSE Returned(EncryptLoop(self, text, key_indices, 1, 0))

\* _vigenere_decrypt without the check of the key indices: a key with no
\* alphabet character leaves the text as it is
VigenereDecrypt_NoKeyCheck(self, text, key) ==
    LET key_indices == KeyIndices(self, key)
    IN  IF Len(key_indices) = 0
        THEN Returned(text)
        ELSE Returned(DecryptLoop(self, text, key_indices, 1, 0))

\* AnswerKeyEncryption._vigenere_decrypt
VigenereDecrypt(self, text, key) ==
    LET key_indices == KeyIndices(self, key)
    IN  IF Len(key_indices) = 0
        THEN Raised("EncryptionError")
        ELSE Returned(DecryptLoop(self, text, key_indices, 1, 0))

\* encrypt without the check of the plaintext
EncryptText_NoEmptyCheck(self, text, key) ==
    IF Len(key) = 0 THEN Raised("EncryptionError")
    ELSE LET r == VigenereEncrypt(self, text, key)
         IN  IF r.err = "none" THEN r ELSE Raised("EncryptionError")

\* AnswerKeyEncryption.encrypt: every exception of the inner call is
\* re-raised as EncryptionError
EncryptText(self, text, key) ==
    IF Len(text) = 0 THEN Raised("EncryptionError")
    ELSE IF Len(key) = 0 THEN Raised("EncryptionError")
    ELSE LET r == VigenereEncrypt(self, text, key)
         IN  IF r.err = "none" THEN r ELSE Raised("EncryptionError")

\* decrypt refusing a ciphertext with a character outside the alphabet
DecryptText_KnownCharsOnly(self, text, key) ==
    IF Len(text) = 0 THEN Raised("EncryptionError")
    ELSE IF Len(key) = 0 THEN Raised("EncryptionError")
    ELSE IF \E i \in 1..Len(text) : text[i] \notin DOMAIN self.alphabet_index
    THEN Raised("EncryptionError")
    ELSE LET r == VigenereDecrypt(self, text, key)
         IN  IF r.err = "none" THEN r ELSE Raised("EncryptionError")

\* AnswerKeyEncryption.decrypt
DecryptText(self, text, key) ==
    IF Len(text) = 0 THEN Raised("EncryptionError")
    ELSE IF Len(key) = 0 THEN Raised("EncryptionError")
    ELSE LET r == VigenereDecrypt(self, text, key)
         IN  IF r.err = "none" THEN r ELSE Raised("EncryptionError")

\* module-level encrypt_answer_data / decrypt_answer_data: a fresh instance per call
encrypt_answer_data(questions_data, pw) ==
    EncryptText(NewAnswerKeyEncryption, questions_data, pw)

decrypt_answer_data(encrypted_data, pw) ==
    DecryptText(NewAnswerKeyEncryption, encrypted_data, pw)

-----------------------------------------------------------------------------
(* encryption_utils.py, the cipher of the first (script) implementation *)

\* idx = build_index(ALPHABET) and N = len(ALPHABET) of encryption_utils
LegacyCipher ==
    [alphabet       |-> LEGACY_ALPHABET,
     alphabet_index |-> BuildIndex(LEGACY_ALPHABET),
     alphabet_size  |-> Len(LEGACY_ALPHABET)]

\* key_idx = [idx[c] for c in key]: KeyError for a character outside the alphabet
LegacyKeyIndices(key) ==
    IF \E i \in 1..Len(key) : key[i] \notin DOMAIN LegacyCipher.alphabet_index
    THEN Raised("KeyError")
    ELSE Returned([i \in 1..Len(key) |-> LegacyCipher.alphabet_index[key[i]]])

\* encrypt_vigenere_like: the loop is that of _vigenere_encrypt; with an empty
\* key, ki % len(key_idx) raises at the first alphabet character
encrypt_vigenere_like(plain, key) ==
    LET key_idx == LegacyKeyIndices(key)
    IN  IF key_idx.err # "none" THEN key_idx
        ELSE IF Len(key_idx.val) = 0
        THEN IF \E i \in 1..Len(plain) : plain[i] \in DOMAIN LegacyCipher.alphabet_index
             THEN Raised("ZeroDivisionError")
             ELSE Returned(plain)
        ELSE Returned(EncryptLoop(LegacyCipher, plain, key_idx.val, 1, 0))

\* decrypt_vigenere_like
decrypt_vigenere_like(cipher, key) ==
    LET key_idx == LegacyKeyIndices(key)
    IN  IF key_idx.err # "none" THEN key_idx
        ELSE IF Len(key_idx.val) = 0
        THEN IF \E i \in 1..Len(cipher) : cipher[i] \in DOMAIN LegacyCipher.alphabet_index
             THEN Raised("ZeroDivisionError")
             ELSE Returned(cipher)
        ELSE Returned(DecryptLoop(LegacyCipher, cipher, key_idx.val, 1, 0))

\* encrypt_answer_data / decrypt_answer_data of encryption_utils
legacy_encrypt_answer_data(questions_data, pw) == encrypt_vigenere_like(questions_data, pw)
legacy_decrypt_answer_data(encrypted_data, pw) == decrypt_vigenere_like(encrypted_data, pw)

-----------------------------------------------------------------------------
(* The cipher run: one text and one password, encrypted and decrypted.     *)

\* characters of the explored texts: alphabet symbols from both ends of the
\* alphabet and symbols outside it
TextChars == {"0", "Q", "z", "_", " "}
KeyChars == {"2", "Z", "a", "-"}

Texts == SeqsUpTo(TextChars, MaxTextLen)
Keys == SeqsUpTo(KeyChars, MaxKeyLen)

CipherInit ==
    /\ encryptor = NewAnswerKeyEncryption
    /\ plaintext \in Texts
    /\ password \in Keys
    /\ pc_cipher = "start"
    /\ encrypted = NoResult
    /\ decrypted = NoResult
    /\ legacy_encrypted = NoResult
    /\ cross_decrypted = [by_legacy |-> NoResult, by_packaged |-> NoResult]

\* encryptor.encrypt(plaintext, password)
Encrypt ==
    /\ pc_cipher = "start"
    /\ encrypted' = EncryptText(encryptor, plaintext, password)
    /\ pc_cipher' = "encrypted"
    /\ UNCHANGED <<encryptor, plaintext, password, decrypted>>
    /\ UNCHANGED notCipherVars

\* encryptor.decrypt(ciphertext, password) on the ciphertext just produced
Decrypt ==
    /\ pc_cipher = "encrypted"
    /\ encrypted.err = "none"
    /\ decrypted' = DecryptText(encryptor, encrypted.val, password)
    /\ pc_cipher' = "decrypted"
    /\ UNCHANGED <<encryptor, plaintext, password, encrypted>>
    /\ UNCHANGED notCipherVars

\* encryptor.decrypt(text, password) on the text itself: a ciphertext that
\* encrypt need not have produced
DecryptInput ==
    /\ pc_cipher = "start"
    /\ decrypted' = DecryptText(encryptor, plaintext, password)
    /\ pc_cipher' = "deciphered"
    /\ UNCHANGED <<encryptor, plaintext, password, encrypted>>
    /\ UNCHANGED notCipherVars

\* encrypt_answer_data of encryption_utils on the text and the password
\* the packaged encrypt was called with
EncryptLegacy ==
    /\ pc_cipher = "encrypted"
    /\ legacy_encrypted' = legacy_encrypt_answer_data(plaintext, password)
    /\ pc_cipher' = "both encrypted"
    /\ UNCHANGED <<encryptor, plaintext, password, encrypted, decrypted, cross_decrypted>>
    /\ UNCHANGED notCipherCompatVars

\* each ciphertext decrypted by the other implementation: the packaged one by
\* decrypt_answer_data of encryption_utils, the other by the packaged
\* decrypt_answer_data
CrossDecrypt ==
    /\ pc_cipher = "both encrypted"
    /\ cross_decrypted' =
           [by_legacy   |-> IF encrypted.err = "none"
                            THEN legacy_decrypt_answer_data(encrypted.val, password)
                            ELSE NoResult,
            by_packaged |-> IF legacy_encrypted.err = "none"
                            THEN decrypt_answer_data(legacy_encrypted.val, password)
                            ELSE NoResult]
    /\ pc_cipher' = "crossed"
    /\ UNCHANGED <<encryptor, plaintext, password, encrypted, decrypted, legacy_encrypted>>
    /\ UNCHANGED notCipherCompatVars

CipherNext == Encrypt \/ Decrypt \/ DecryptInput \/ EncryptLegacy \/ CrossDecrypt

-----------------------------------------------------------------------------
(* Python built-ins used by the payload code. *)

\* str.strip() / the regular expression class \s, on the characters modelled
Whitespace == {" ", "\t", "\r"}

\* s[i:j] with Python's 0-based, end-exclusive bounds, 0 <= i
Slice(s, i, j) == SubSeq(s, i + 1, IF j < Len(s) THEN j ELSE Len(s))

\* str.strip()
Strip(s) ==
    LET keep == {i \in 1..Len(s) : s[i] \notin Whitespace}
    IN  IF keep = {} THEN <<>>
        ELSE LET first == CHOOSE i \in keep : \A j \in keep : i <= j
                 last  == CHOOSE i \in keep : \A j \in keep : j <= i
             IN  SubSeq(s, first, last)

\* str.startswith(prefix) for a one-character prefix
StartsWith(s, c) == Len(s) > 0 /\ s[1] = c

DigitValue(c) == CHOOSE d \in 0..9 : digits[d + 1] = c

RECURSIVE DecimalValue(_)
\* value of a non-empty run of decimal digits
DecimalValue(ds) ==
    IF Len(ds) = 0 THEN 0
    ELSE 10 * DecimalValue(SubSeq(ds, 1, Len(ds) - 1)) + DigitValue(ds[Len(ds)])

\* int(s): surrounding whitespace is dropped, then an optional sign, then
\* decimal digits, single underscores allowed between digits; anything else
\* raises ValueError
PyInt(s) ==
    LET t        == Strip(s)
        signed   == Len(t) > 0 /\ t[1] \in {"+", "-"}
        body     == IF signed THEN SubSeq(t, 2, Len(t)) ELSE t
        grouped  == \A i \in 1..Len(body) :
                        \/ body[i] \in Range(digits)
                        \/ /\ body[i] = "_"
                           /\ i > 1 /\ i < Len(body)
                           /\ body[i - 1] \in Range(digits)
                           /\ body[i + 1] \in Range(digits)
        ds       == SelectSeq(body, LAMBDA c : c # "_")
        value    == DecimalValue(ds)
    IN  IF Len(body) = 0 \/ ~grouped
        THEN Raised("ValueError")
        ELSE Returned(IF signed /\ t[1] = "-" THEN 0 - value ELSE value)

RECURSIVE NatStr(_)
NatStr(n) == IF n < 10 THEN <<digits[n + 1]>> ELSE NatStr(n \div 10) \o <<digits[(n % 10) + 1]>>

\* str(n) / f"{n}" of an int
PyStr(n) == IF n < 0 THEN <<"-">> \o NatStr(0 - n) ELSE NatStr(n)

\* chr(65 + answer) for the code points of the ASCII capitals
ChrFromA(answer) == ascii_uppercase[answer + 1]

\* ord(letter) - ord('A') for an ASCII capital
OrdFromA(letter) == CHOOSE k \in 0..25 : ascii_uppercase[k + 1] = letter

\* the digits of the format specification X
HexDigits == <<"0", "1", "2", "3", "4", "5", "6", "7", "8", "9", "A", "B", "C", "D", "E", "F">>

\* f"{byte_value:02X}" for a value below 256
FormatHexByte(byte_value) ==
    <<HexDigits[(byte_value \div 16) + 1], HexDigits[(byte_value % 16) + 1]>>

RECURSIVE SplitOn(_, _)
\* str.split(sep) for a one-character separator
SplitOn(s, sep) ==
    IF \A i \in 1..Len(s) : s[i] # sep THEN <<s>>
    ELSE LET at == CHOOSE i \in 1..Len(s) :
                       s[i] = sep /\ \A j \in 1..(i - 1) : s[j] # sep
         IN  <<SubSeq(s, 1, at - 1)>> \o SplitOn(SubSeq(s, at + 1, Len(s)), sep)

-----------------------------------------------------------------------------
(* The QR payload. *)

\* the plaintext with the count written on two digits at least: Q{len:02d}
FormatPayload_PaddedCount(correct_answers, total) ==
    LET answer_letters == [i \in 1..Len(correct_answers) |-> ChrFromA(correct_answers[i])]
        count == PyStr(Len(correct_answers))
    IN  <<"Q">> \o (IF Len(count) < 2 THEN <<"0">> ELSE <<>>) \o count \o <<"_", "P">>
            \o PyStr(total) \o <<"_">> \o answer_letters

\* the plaintext of ExamGenerator._get_qr_data:
\* f"Q{len(questions)}_P{total}_{answer_letters}"
FormatPayload(correct_answers, total) ==
    LET answer_letters == [i \in 1..Len(correct_answers) |-> ChrFromA(correct_answers[i])]
    IN  <<"Q">> \o PyStr(Len(correct_answers)) \o <<"_", "P">> \o PyStr(total)
            \o <<"_">> \o answer_letters

\* one byte of encode_answers_to_hex with the first answer in the low bits:
\* (answer & 0x03) << (j * 2)
PackGroup_LowBitsFirst(group) ==
    LET shifted == [j \in 0..3 |-> (group[j + 1] % 4) * (2 ^ (2 * j))]
    IN  shifted[0] + shifted[1] + shifted[2] + shifted[3]

\* the byte encode_answers_to_hex builds from a group of four answers:
\* byte_value |= (answer & 0x03) << (6 - j * 2), for j = 0..3
PackGroup(group) ==
    LET shifted == [j \in 0..3 |-> (group[j + 1] % 4) * (2 ^ (6 - 2 * j))]
    IN  shifted[0] + shifted[1] + shifted[2] + shifted[3]

RECURSIVE EncodeAnswersToHex(_)
\* TestGenerator.encode_answers_to_hex (test_generator.py): the answers in
\* groups of four, the last group filled with 0
EncodeAnswersToHex(correct_answers) ==
    IF Len(correct_answers) = 0 THEN <<>>
    ELSE LET taken == Slice(correct_answers, 0, 4)
             group == taken \o [i \in 1..(4 - Len(taken)) |-> 0]
         IN  FormatHexByte(PackGroup(group))
                 \o EncodeAnswersToHex(Slice(correct_answers, 4, Len(correct_answers)))

\* TestGenerator._prepare_qr_data: f"Q{len(questions)}P{self.config.total}A{hex_code}"
PrepareQrData(correct_answers, total) ==
    <<"Q">> \o PyStr(Len(correct_answers)) \o <<"P">> \o PyStr(total)
        \o <<"A">> \o EncodeAnswersToHex(correct_answers)

\* raise ValueError(f"Failed to parse QR data: {str(e)}"): the message names the check that failed
ParseError(msg) == Raised(msg)

\* parse_decrypted_qr_data with the letters converted from 1 (A=1 .. D=4)
ParseDecryptedQrData_FromOne(decrypted_data) ==
    IF ~StartsWith(decrypted_data, "Q") THEN ParseError("ValueError: Invalid QR data format")
    ELSE
    LET parts == SplitOn(decrypted_data, "_")
    IN  IF Len(parts) # 3 THEN ParseError("ValueError: Invalid QR data format - expected 3 parts")
        ELSE
        LET q_part == parts[1]
            p_part == parts[2]
            answers_string == parts[3]
            num_questions == PyInt(Slice(q_part, 1, Len(q_part)))
            total_points == PyInt(Slice(p_part, 1, Len(p_part)))
        IN  IF ~StartsWith(q_part, "Q") THEN ParseError("ValueError: Invalid questions part")
            ELSE IF num_questions.err # "none" THEN ParseError("ValueError: invalid literal for int()")
            ELSE IF ~StartsWith(p_part, "P") THEN ParseError("ValueError: Invalid points part")
            ELSE IF total_points.err # "none" THEN ParseError("ValueError: invalid literal for int()")
            ELSE IF Len(answers_string) # num_questions.val
                 THEN ParseError("ValueError: Expected {num_questions} answers, got {len(answers_string)}")
            ELSE IF \E i \in 1..Len(answers_string) :
                        answers_string[i] \notin {"A", "B", "C", "D"}
                 THEN ParseError("ValueError: Invalid answer letter")
            ELSE Returned([num_questions  |-> num_questions.val,
                           total_points   |-> total_points.val,
                           answers        |-> [i \in 1..Len(answers_string) |->
                                                  OrdFromA(answers_string[i]) + 1],
                           answer_letters |-> answers_string])

\* parse_decrypted_qr_data with the letters examined before their number
ParseDecryptedQrData_LettersFirst(decrypted_data) ==
    IF ~StartsWith(decrypted_data, "Q") THEN ParseError("ValueError: Invalid QR data format")
    ELSE
    LET parts == SplitOn(decrypted_data, "_")
    IN  IF Len(parts) # 3 THEN ParseError("ValueError: Invalid QR data format - expected 3 parts")
        ELSE
        LET q_part == parts[1]
            p_part == parts[2]
            answers_string == parts[3]
            num_questions == PyInt(Slice(q_part, 1, Len(q_part)))
            total_points == PyInt(Slice(p_part, 1, Len(p_part)))
        IN  IF ~StartsWith(q_part, "Q") THEN ParseError("ValueError: Invalid questions part")
            ELSE IF num_questions.err # "none" THEN ParseError("ValueError: invalid literal for int()")
            ELSE IF ~StartsWith(p_part, "P") THEN ParseError("ValueError: Invalid points part")
            ELSE IF total_points.err # "none" THEN ParseError("ValueError: invalid literal for int()")
            ELSE IF \E i \in 1..Len(answers_string) :
                        answers_string[i] \notin {"A", "B", "C", "D"}
                 THEN ParseError("ValueError: Invalid answer letter")
            ELSE IF Len(answers_string) # num_questions.val
                 THEN ParseError("ValueError: Expected {num_questions} answers, got {len(answers_string)}")
            ELSE Returned([num_questions  |-> num_questions.val,
                           total_points   |-> total_points.val,
                           answers        |-> [i \in 1..Len(answers_string) |->
                                                  OrdFromA(answers_string[i])],
                           answer_letters |-> answers_string])

\* parse_decrypted_qr_data
ParseDecryptedQrData(decrypted_data) ==
    IF ~StartsWith(decrypted_data, "Q") THEN ParseError("ValueError: Invalid QR data format")
    ELSE
    LET parts == SplitOn(decrypted_data, "_")
    IN  IF Len(parts) # 3 THEN ParseError("ValueError: Invalid QR data format - expected 3 parts")
        ELSE
        LET q_part == parts[1]
            p_part == parts[2]
            answers_string == parts[3]
            num_questions == PyInt(Slice(q_part, 1, Len(q_part)))
            total_points == PyInt(Slice(p_part, 1, Len(p_part)))
        IN  IF ~StartsWith(q_part, "Q") THEN ParseError("ValueError: Invalid questions part")
            ELSE IF num_questions.err # "none" THEN ParseError("ValueError: invalid literal for int()")
            ELSE IF ~StartsWith(p_part, "P") THEN ParseError("ValueError: Invalid points part")
            ELSE IF total_points.err # "none" THEN ParseError("ValueError: invalid literal for int()")
            ELSE IF Len(answers_string) # num_questions.val
                 THEN ParseError("ValueError: Expected {num_questions} answers, got {len(answers_string)}")
            ELSE IF \E i \in 1..Len(answers_string) :
                        answers_string[i] \notin {"A", "B", "C", "D"}
                 THEN ParseError("ValueError: Invalid answer letter")
            ELSE Returned([num_questions  |-> num_questions.val,
                           total_points   |-> total_points.val,
                           answers        |-> [i \in 1..Len(answers_string) |->
                                                  OrdFromA(answers_string[i])],
                           answer_letters |-> answers_string])

\* decrypt_qr_code: decrypt, then parse; an exception of either step leaves the call
\* decrypt_qr_code that decrypts with the configured password, whatever
\* password it is given
DecryptQrCode_ConfiguredPassword(encrypted_qr_data, pw) ==
    LET decrypted_data == decrypt_answer_data(encrypted_qr_data, config.password)
    IN  IF decrypted_data.err # "none" THEN decrypted_data
        ELSE ParseDecryptedQrData(decrypted_data.val)

DecryptQrCode(encrypted_qr_data, pw) ==
    LET decrypted_data == decrypt_answer_data(encrypted_qr_data, pw)
    IN  IF decrypted_data.err # "none" THEN decrypted_data
        ELSE ParseDecryptedQrData(decrypted_data.val)

-----------------------------------------------------------------------------
(* The codec run: one answer summary, encoded canonically and parsed back. *)

\* total_points of the explored summaries: zero, one digit, several digits
PointsSample == {0, 7, 10, 100, 2025}

\* a long run of answers: count of two digits, answers cycling from k
LongCount == MaxCount + 10
CycleFrom(k) == [i \in 1..LongCount |-> (i + k) % 4]

AnswerLists ==
    UNION {[1..n -> 0..3] : n \in 0..MaxCount} \cup {CycleFrom(k) : k \in 0..3}

\* payloads handed to the parser as a scanner delivers them: every combination
\* of a count part, a points part and a letters run, well formed or not, and
\* payloads with fewer or more separators, among them a packed one without any
QParts ==
    {<<"Q">> \o PyStr(n) : n \in 0..MaxCount}
        \cup {<<"Q">>, <<"X", "1">>, <<"Q", "-", "1">>, <<"Q", " ", "2">>, <<"Q", "x">>}

PParts ==
    {<<"P", "7">>, <<"P", "0">>, <<"P", "1", "0">>, <<"P", "-", "5">>, <<"P", "+", "7">>,
     <<"P">>, <<"7">>, <<"p", "7">>, <<"P", "x">>}

LetterRuns == SeqsUpTo({"A", "B", "C", "D", "E", "a"}, MaxCount)

ReceivedPayloads ==
    {q \o <<"_">> \o p \o <<"_">> \o l : q \in QParts, p \in PParts, l \in LetterRuns}
        \cup {<<>>,
              <<"Q", "4", "P", "5", "0", "A", "1", "B">>,
              <<"Q", "2", "P", "7", "A", "6", "0">>,
              <<"Q", "5", "P", "7", "A", "E", "4", "C", "0">>,
              <<"Q", "1", "_", "P", "7">>,
              <<"Q", "1", "_", "P", "7", "_", "A", "_", "B">>,
              <<"_", "Q", "1", "_", "P", "7", "_", "A">>}

\* a run starts with a summary to encode, or with a payload received
CodecInit ==
    /\ \/ /\ summary \in {[num_questions |-> Len(a), total_points |-> p, answers |-> a] :
                              a \in AnswerLists, p \in PointsSample}
          /\ payload = <<>>
          /\ pc_codec = "start"
       \/ /\ summary = [num_questions |-> 0, total_points |-> 0, answers |-> <<>>]
          /\ payload \in ReceivedPayloads
          /\ pc_codec = "received"
    /\ parsed_payload = NoResult

\* the canonical encoding of the summary
Encode ==
    /\ pc_codec = "start"
    /\ payload' = FormatPayload(summary.answers, summary.total_points)
    /\ pc_codec' = "encoded"
    /\ UNCHANGED <<summary, parsed_payload>>
    /\ UNCHANGED notCodecVars

\* parse_decrypted_qr_data(payload)
Parse ==
    /\ pc_codec = "encoded"
    /\ parsed_payload' = ParseDecryptedQrData(payload)
    /\ pc_codec' = "parsed"
    /\ UNCHANGED <<summary, payload>>
    /\ UNCHANGED notCodecVars

\* parse_decrypted_qr_data(payload) on a payload received
ParseReceived ==
    /\ pc_codec = "received"
    /\ parsed_payload' = ParseDecryptedQrData(payload)
    /\ pc_codec' = "scanned"
    /\ UNCHANGED <<summary, payload>>
    /\ UNCHANGED notCodecVars

\* the packed encoding of the summary, as the first generator writes it
PrepareQrDataCall ==
    /\ pc_codec = "start"
    /\ payload' = PrepareQrData(summary.answers, summary.total_points)
    /\ pc_codec' = "packed"
    /\ UNCHANGED <<summary, parsed_payload>>
    /\ UNCHANGED notCodecVars

CodecNext == Encode \/ Parse \/ ParseReceived \/ PrepareQrDataCall


-----------------------------------------------------------------------------
(* QuestionParser (internal/question_parser.py) *)

\* str.lower() on the characters modelled
LowerChar(c) ==
    IF c \in Range(ascii_uppercase) THEN ascii_lowercase[OrdFromA(c) + 1]
    ELSE IF c = "Í" THEN "í"
    ELSE c

Lower(s) == [i \in 1..Len(s) |-> LowerChar(s[i])]

\* truth value of opt.strip()
NonBlank(opt) == Len(Strip(opt)) > 0
Blank(opt) == ~NonBlank(opt)

\* permutations of 1..n: the orders random.shuffle can leave n items in
Perms(n) == {f \in [1..n -> 1..n] : \A i, j \in 1..n : f[i] = f[j] => i = j}

true_patterns ==
    {<<"v", "e", "r", "d", "a", "d", "e", "r", "o">>,
     <<"t", "r", "u", "e">>,
     <<"c", "i", "e", "r", "t", "o">>,
     <<"c", "o", "r", "r", "e", "c", "t", "o">>,
     <<"s", "í">>,
     <<"s", "i">>,
     <<"y", "e", "s">>,
     <<"v">>,
     <<"t">>}

false_patterns ==
    {<<"f", "a", "l", "s", "o">>,
     <<"f", "a", "l", "s", "e">>,
     <<"i", "n", "c", "o", "r", "r", "e", "c", "t", "o">>,
     <<"n", "o">>,
     <<"f">>}

\* _is_true_false_question with the options compared as written, not lower-cased
IsTrueFalseQuestion_CaseSensitive(opts) ==
    LET kept == SelectSeq(opts, NonBlank)
        non_empty_options == [i \in 1..Len(kept) |-> Strip(kept[i])]
    IN  IF Len(non_empty_options) # 2 THEN FALSE
        ELSE /\ \E i \in 1..2 : non_empty_options[i] \in true_patterns
             /\ \E i \in 1..2 : non_empty_options[i] \in false_patterns

\* _is_true_false_question with one matching word being enough
IsTrueFalseQuestion_Either(opts) ==
    LET kept == SelectSeq(opts, NonBlank)
        non_empty_options == [i \in 1..Len(kept) |-> Lower(Strip(kept[i]))]
    IN  IF Len(non_empty_options) # 2 THEN FALSE
        ELSE \/ \E i \in 1..2 : non_empty_options[i] \in true_patterns
             \/ \E i \in 1..2 : non_empty_options[i] \in false_patterns

\* QuestionParser._is_true_false_question
IsTrueFalseQuestion(opts) ==
    LET kept == SelectSeq(opts, NonBlank)
        non_empty_options == [i \in 1..Len(kept) |-> Lower(Strip(kept[i]))]
    IN  IF Len(non_empty_options) # 2 THEN FALSE
        ELSE LET has_true  == \E i \in 1..2 : non_empty_options[i] \in true_patterns
                 has_false == \E i \in 1..2 : non_empty_options[i] \in false_patterns
             IN  has_true /\ has_false

\* the list after the two rebuild loops of _shuffle_options: the shuffled
\* non-empty options, then the empty ones, each written over the slot it lands on
Rebuilt(opts, shuffled, empty_options) ==
    [i \in 1..Len(opts) |->
        IF i <= Len(shuffled) THEN shuffled[i].option
        ELSE IF i - Len(shuffled) <= Len(empty_options) THEN empty_options[i - Len(shuffled)]
        ELSE opts[i]]

\* _shuffle_options returning the index the correct option had before the shuffle
ShuffleOptions_StaleIndex(opts, perm) ==
    LET non_empty_options  == SelectSeq(opts, NonBlank)
        empty_options      == SelectSeq(opts, Blank)
        options_with_flags == [i \in 1..Len(non_empty_options) |->
                                  [option |-> non_empty_options[i], is_correct |-> i = 1]]
        shuffled           == [i \in 1..Len(options_with_flags) |-> options_with_flags[perm[i]]]
    IN  [options |-> Rebuilt(opts, shuffled, empty_options), new_correct_index |-> 0]

\* _shuffle_options refilling the remaining slots with "" instead of the
\* empty options it set aside
ShuffleOptions_FreshPadding(opts, perm) ==
    LET non_empty_options  == SelectSeq(opts, NonBlank)
        empty_options      == [i \in 1..Len(SelectSeq(opts, Blank)) |-> <<>>]
        options_with_flags == [i \in 1..Len(non_empty_options) |->
                                  [option |-> non_empty_options[i], is_correct |-> i = 1]]
        shuffled           == [i \in 1..Len(options_with_flags) |-> options_with_flags[perm[i]]]
        hits               == {i \in 1..Len(shuffled) : shuffled[i].is_correct}
    IN  [options |-> Rebuilt(opts, shuffled, empty_options),
         new_correct_index |-> IF hits = {} THEN 0
                               ELSE (CHOOSE i \in hits : \A j \in hits : j <= i) - 1]

\* _shuffle_options putting the empty options back in the reverse of the order
\* they had
ShuffleOptions_PaddingReversed(opts, perm) ==
    LET non_empty_options  == SelectSeq(opts, NonBlank)
        set_aside          == SelectSeq(opts, Blank)
        empty_options      == [i \in 1..Len(set_aside) |-> set_aside[Len(set_aside) + 1 - i]]
        options_with_flags == [i \in 1..Len(non_empty_options) |->
                                  [option |-> non_empty_options[i], is_correct |-> i = 1]]
        shuffled           == [i \in 1..Len(options_with_flags) |-> options_with_flags[perm[i]]]
        hits               == {i \in 1..Len(shuffled) : shuffled[i].is_correct}
    IN  [options |-> Rebuilt(opts, shuffled, empty_options),
         new_correct_index |-> IF hits = {} THEN 0
                               ELSE (CHOOSE i \in hits : \A j \in hits : j <= i) - 1]

\* QuestionParser._shuffle_options: the list as left in place and the index
\* returned, when random.shuffle leaves the flagged options in the order perm
ShuffleOptions(opts, perm) ==
    LET non_empty_options  == SelectSeq(opts, NonBlank)
        empty_options      == SelectSeq(opts, Blank)
        options_with_flags == [i \in 1..Len(non_empty_options) |->
                                  [option |-> non_empty_options[i], is_correct |-> i = 1]]
        shuffled           == [i \in 1..Len(options_with_flags) |-> options_with_flags[perm[i]]]
        hits               == {i \in 1..Len(shuffled) : shuffled[i].is_correct}
    IN  [options |-> Rebuilt(opts, shuffled, empty_options),
         new_correct_index |-> IF hits = {} THEN 0
                               ELSE (CHOOSE i \in hits : \A j \in hits : j <= i) - 1]

\* options padded with "" up to four entries
Padded(opts) == opts \o [i \in 1..(4 - Len(opts)) |-> <<>>]

\* whether _parse_question_block shuffles the options of these lines
BlockShuffles(self, lines) ==
    LET opts == Padded(Slice(lines, 1, 5))
    IN  /\ Len(lines) >= 3
        /\ self.shuffle_options
        /\ Len(SelectSeq(opts, NonBlank)) > 1
        /\ ~IsTrueFalseQuestion(opts)

\* QuestionParser._parse_question_block on the stripped, non-empty lines of a
\* block; perm is the order random.shuffle leaves, used when the block is shuffled
ParseQuestionBlock(self, lines, perm) ==
    IF Len(lines) = 0 THEN Raised("InvalidQuestionFormatError")
    ELSE
    LET question_text == lines[1]
        opts          == IF Len(lines) > 1 THEN Slice(lines, 1, 5) ELSE <<>>
    IN  IF Len(opts) < 2 THEN Raised("InvalidQuestionFormatError")
        ELSE
        LET padded   == Padded(opts)
            shuffled == IF BlockShuffles(self, lines)
                        THEN ShuffleOptions(padded, perm)
                        ELSE [options |-> padded, new_correct_index |-> 0]
        IN  Returned([question       |-> question_text,
                      options        |-> shuffled.options,
                      correct_answer |-> shuffled.new_correct_index])

\* whether re.split(r'^-\s+', content, flags=re.MULTILINE) splits at the start
\* of line i: a dash followed by whitespace, the line break included
IsBlockStart(text, i) ==
    LET line == text[i]
    IN  /\ Len(line) > 0
        /\ line[1] = "-"
        /\ \/ Len(line) > 1 /\ line[2] \in Whitespace
           \/ Len(line) = 1 /\ i < Len(text)

BlockStarts(text) == {i \in 1..Len(text) : IsBlockStart(text, i)}

\* [line.strip() for line in block.strip().split('\n') if line.strip()] for the
\* block that starts at line i
BlockLines(text, i) ==
    LET later == {j \in BlockStarts(text) : j > i}
        stop  == IF later = {} THEN Len(text) + 1
                 ELSE CHOOSE j \in later : \A k \in later : j <= k
        raw   == [k \in 1..(stop - i) |->
                     IF k = 1 THEN Slice(text[i], 1, Len(text[i])) ELSE text[i + k - 1]]
        kept  == SelectSeq(raw, NonBlank)
    IN  [k \in 1..Len(kept) |-> Strip(kept[k])]

\* the question blocks of the content, in order
QuestionBlocks(text) ==
    LET starts == BlockStarts(text)
        nth(n) == CHOOSE i \in starts : Cardinality({j \in starts : j < i}) = n - 1
    IN  [n \in 1..Cardinality(starts) |-> BlockLines(text, nth(n))]

\* QuestionParser.parse_from_string; perms[n] is the order random.shuffle
\* leaves for block n
ParseFromString(self, text, perms) ==
    IF \A i \in 1..Len(text) : Blank(text[i]) THEN Raised("InvalidQuestionFormatError")
    ELSE
    LET question_blocks == QuestionBlocks(text)
        parsed == [n \in 1..Len(question_blocks) |->
                      ParseQuestionBlock(self, question_blocks[n], perms[n])]
    IN  IF Len(question_blocks) = 0 THEN Raised("InvalidQuestionFormatError")
        ELSE IF \E n \in 1..Len(parsed) : parsed[n].err # "none"
             THEN Raised("InvalidQuestionFormatError")
             ELSE Returned([n \in 1..Len(parsed) |-> parsed[n].val])

RECURSIVE PermSeqs(_)
\* one permutation per size
PermSeqs(sizes) ==
    IF Len(sizes) = 0 THEN {<<>>}
    ELSE {<<p>> \o rest : p \in Perms(Head(sizes)), rest \in PermSeqs(Tail(sizes))}

\* the outcomes random.shuffle can have over one parse_from_string call: a
\* permutation of the non-empty options for each block that is shuffled
ShuffleChoices(self, text) ==
    LET question_blocks == QuestionBlocks(text)
    IN  PermSeqs([n \in 1..Len(question_blocks) |->
                    IF BlockShuffles(self, question_blocks[n])
                    THEN Len(SelectSeq(Padded(Slice(question_blocks[n], 1, 5)), NonBlank))
                    ELSE 0])

-----------------------------------------------------------------------------
(* The shuffle run: one option list, shuffled or classified.               *)

\* option strings of the explored lists: empty, blank, plain, true/false words
OptionSample == {<<>>, <<" ">>, <<"P", "a", "r", "i", "s">>, <<"R", "o", "m", "e">>}

TrueFalseSample ==
    {<<"T", "r", "u", "e">>,
     <<"F", "A", "L", "S", "E">>,
     <<" ", "f", "a", "l", "s", "o">>,
     <<"V", "e", "r", "d", "a", "d", "e", "r", "o">>,
     <<"Y", "e", "s">>,
     <<"n", "o">>,
     <<"S", "Í">>,
     <<"s", "i">>,
     <<"v">>,
     <<"F">>,
     <<"t">>,
     <<"c", "i", "e", "r", "t", "o">>,
     <<"C", "o", "r", "r", "e", "c", "t", "o">>,
     <<"i", "n", "c", "o", "r", "r", "e", "c", "t", "o">>,
     <<"m", "a", "y", "b", "e">>,
     <<"t", "r", "u">>}

OptionLists ==
    SeqsUpTo(OptionSample, MaxOptions)
        \cup {<<a, b, <<>>, <<>>>> : a \in TrueFalseSample, b \in TrueFalseSample}
        \cup {<<a, b, <<"P", "a", "r", "i", "s">>, <<>>>> : a \in TrueFalseSample, b \in TrueFalseSample}

ShuffleInit ==
    /\ options_before \in OptionLists
    /\ options = options_before
    /\ pc_shuffle = "start"
    /\ new_correct_index = 0
    /\ is_true_false = FALSE

\* parser._shuffle_options(options)
ShuffleOptionsCall ==
    /\ pc_shuffle = "start"
    /\ \E perm \in Perms(Len(SelectSeq(options, NonBlank))) :
          LET r == ShuffleOptions(options, perm)
          IN  /\ options' = r.options
              /\ new_correct_index' = r.new_correct_index
    /\ pc_shuffle' = "shuffled"
    /\ UNCHANGED <<options_before, is_true_false>>
    /\ UNCHANGED notShuffleVars

\* parser._is_true_false_question(options)
IsTrueFalseQuestionCall ==
    /\ pc_shuffle = "start"
    /\ is_true_false' = IsTrueFalseQuestion(options)
    /\ pc_shuffle' = "classified"
    /\ UNCHANGED <<options_before, options, new_correct_index>>
    /\ UNCHANGED notShuffleVars

ShuffleNext == ShuffleOptionsCall \/ IsTrueFalseQuestionCall

-----------------------------------------------------------------------------
(* The parser run: one content, parsed by parse_from_string.               *)

\* pieces of question files: blocks of three, two, one and five option lines,
\* true/false blocks in several spellings, and a line that opens no block
Chunks ==
    {<<<<"-", " ", "2", "+", "2", "?">>, <<"4">>, <<"3">>, <<"5">>>>,
     <<<<"-", " ", "S", "k", "y", "?">>, <<"T", "R", "U", "E">>, <<"F", "a", "l", "s", "e">>>>,
     <<<<"-">>, <<" ", " ", "f", "a", "l", "s", "o", " ">>, <<>>, <<"V", "e", "r", "d", "a", "d", "e", "r", "o">>>>,
     <<<<"-", " ", "x">>, <<"a">>>>,
     <<<<"-", " ", "o", "k", "?">>, <<"Y", "e", "s">>, <<"n", "o">>, <<"m", "a", "y", "b", "e">>>>,
     <<<<"-", " ", "a", "b", "c", "?">>, <<"a">>, <<"b">>, <<"c">>, <<"d">>, <<"e">>>>,
     <<<<"n", "o", "t", "e", "s">>>>}

RECURSIVE Flatten(_)
Flatten(ss) == IF Len(ss) = 0 THEN <<>> ELSE Head(ss) \o Flatten(Tail(ss))

Contents == {Flatten(cs) : cs \in SeqsUpTo(Chunks, MaxBlocks)} \cup {<<<<" ">>, <<>>>>}

ParserInit ==
    /\ parser \in [shuffle_options : BOOLEAN]
    /\ content \in Contents
    /\ pc_parser = "start"
    /\ questions = NoResult

\* parser.parse_from_string(content)
ParseFromStringCall ==
    /\ pc_parser = "start"
    /\ \E perms \in ShuffleChoices(parser, content) :
          questions' = ParseFromString(parser, content, perms)
    /\ pc_parser' = "parsed"
    /\ UNCHANGED <<parser, content>>
    /\ UNCHANGED notParserVars

ParserNext == ParseFromStringCall

-----------------------------------------------------------------------------
(* ExamConfig (config.py) and ExamGenerator (core.py) *)

\* ExamConfig.__init__, for the two parameters the answer key depends on
NewExamConfig(total_points, pw) ==
    IF total_points <= 0 THEN Raised("ConfigurationError")
    ELSE IF Len(pw) = 0 THEN Raised("ConfigurationError")
    ELSE Returned([total |-> total_points, password |-> Strip(pw)])

\* ExamConfigBuilder.build, for the total points and the password set on
\* the builder
BuildExamConfig(total_points, pw) ==
    IF Len(pw) = 0 THEN Raised("ConfigurationError")
    ELSE NewExamConfig(total_points, pw)

\* ExamGenerator.__init__
NewExamGenerator(shuffle, max_questions) ==
    [shuffle_options   |-> shuffle,
     max_questions     |-> Max(1, Min(max_questions, 50)),
     _parsed_questions |-> None,
     _qr_data          |-> None,
     _qr_image_path    |-> None,
     _temp_files       |-> <<>>]

\* ExamGenerator._validate_questions, on a list of dictionaries
ValidateQuestions(qs) ==
    IF Len(qs) = 0 THEN Raised("ValueError")
    ELSE IF \E i \in 1..Len(qs) :
                \/ {"question", "options", "correct_answer"} \ DOMAIN qs[i] # {}
                \/ Len(qs[i].options) < 2
                \/ ~(0 <= qs[i].correct_answer
                        /\ qs[i].correct_answer < Len(qs[i].options))
         THEN Raised("ValueError")
         ELSE Returned(qs)

\* os.path.exists(name) for the name of a temporary file
Exists(fs, name) == name \in 1..Len(fs) /\ fs[name] # None

\* the files left once os.remove has removed those of names
Removed(fs, names) == [i \in 1..Len(fs) |-> IF i \in names THEN None ELSE fs[i]]

\* the files ExamGenerator.cleanup calls os.remove on: the QR image if it
\* exists, and the tracked files that exist
RemoveAttempts(self, fs) ==
    {name \in 1..Len(fs) :
        /\ Exists(fs, name)
        /\ \/ self._qr_image_path = Some(name)
           \/ name \in Range(self._temp_files)}

\* ExamGenerator.cleanup, when os.remove raises for the files of failing and
\* for no other: the generator and the files it leaves
CleanupOf(self, fs, failing) ==
    LET path          == self._qr_image_path
        image_removed == /\ path # None
                         /\ Exists(fs, path.value)
                         /\ path.value \notin failing
        fs1           == IF image_removed THEN Removed(fs, {path.value}) ELSE fs
        removed       == {name \in Range(self._temp_files) :
                              Exists(fs1, name) /\ name \notin failing}
        Kept(name)    == name \notin removed
    IN  [self  |-> [self EXCEPT !._qr_image_path = IF image_removed THEN None ELSE @,
                                !._temp_files = SelectSeq(@, Kept)],
         files |-> Removed(fs1, removed)]

\* ExamGenerator._set_questions: the generator and the files it leaves
SetQuestionsOf(self, fs, qs, failing) ==
    LET cleared == [self EXCEPT !._parsed_questions = Some(Slice(qs, 0, self.max_questions)),
                                !._qr_data = None]
    IN  IF cleared._qr_image_path # None
        THEN CleanupOf(cleared, fs, failing)
        ELSE [self |-> cleared, files |-> fs]

\* a load that drops the cached QR data before it raises
TryLoad_ClearsFirst(self, fs, outcome, failing) ==
    IF outcome.err = "none"
    THEN LET set == SetQuestionsOf(self, fs, outcome.val, failing)
         IN  [err |-> "none", self |-> set.self, files |-> set.files]
    ELSE [err |-> "ExamGeneratorError", self |-> [self EXCEPT !._qr_data = None], files |-> fs]

\* the body of load_questions_from_file, load_questions_from_string and
\* set_questions after its first statement gave outcome: _set_questions if
\* it returned, ExamGeneratorError for any exception
TryLoad(self, fs, outcome, failing) ==
    IF outcome.err = "none"
    THEN LET set == SetQuestionsOf(self, fs, outcome.val, failing)
         IN  [err |-> "none", self |-> set.self, files |-> set.files]
    ELSE [err |-> "ExamGeneratorError", self |-> self, files |-> fs]

\* the plaintext and the ciphertext ExamGenerator._get_qr_data builds
QrPlainData(self, cfg) ==
    LET parsed == self._parsed_questions.value
        correct_answers == [i \in 1..Len(parsed) |-> parsed[i].correct_answer]
    IN  FormatPayload(correct_answers, cfg.total)

BuildQrData(self, cfg) == encrypt_answer_data(QrPlainData(self, cfg), cfg.password)

\* ExamGenerator._get_qr_data: the cached data if there is one, else built
\* and cached
GetQrDataOf(self, cfg) ==
    IF self._qr_data # None
    THEN [err |-> "none", self |-> self, data |-> self._qr_data.value]
    ELSE LET data == BuildQrData(self, cfg)
         IN  IF data.err = "none"
             THEN [err |-> "none", self |-> [self EXCEPT !._qr_data = Some(data.val)],
                   data |-> data.val]
             ELSE [err |-> data.err, self |-> self, data |-> <<>>]

\* ExamGenerator._get_qr_image_path: the cached path if there is one, else
\* the QR data saved to a new temporary file, which is tracked
GetQrImagePathOf(self, cfg, fs) ==
    IF self._qr_image_path # None
    THEN [err |-> "none", self |-> self, files |-> fs]
    ELSE LET qr_data == GetQrDataOf(self, cfg)
             name    == Len(fs) + 1
         IN  IF qr_data.err # "none"
             THEN [err |-> qr_data.err, self |-> self, files |-> fs]
             ELSE [err   |-> "none",
                   self  |-> [qr_data.self EXCEPT
                                 !._qr_image_path = Some(name),
                                 !._temp_files = IF name \in Range(@) THEN @ ELSE Append(@, name)],
                   files |-> Append(fs, Some(qr_data.data))]

\* PDFBuilder._create_compact_question on every question: the options are
\* filled in place with "" up to four
Rendered(qs) == [i \in 1..Len(qs) |-> [qs[i] EXCEPT !.options = Padded(@)]]

\* PDFBuilder._create_qr_cell: the image embedded, none if the file is missing
QrCell(fs, path) == IF path # None /\ Exists(fs, path.value) THEN fs[path.value] ELSE None

\* generate_student_exam (kind "student") and generate_answer_key (kind
\* "answer_key"): the generator, the files and the documents it leaves
GenerateOf(self, cfg, fs, docs, kind) ==
    LET unchanged(e) == [err |-> e, self |-> self, files |-> fs, documents |-> docs]
    IN  IF self._parsed_questions = None \/ Len(self._parsed_questions.value) = 0
        THEN unchanged("ExamGeneratorError")
        ELSE IF kind = "answer_key" /\ NewExamConfig(cfg.total, cfg.password).err # "none"
        THEN unchanged("FileGenerationError")
        ELSE LET image == GetQrImagePathOf(self, cfg, fs)
             IN  IF image.err # "none" THEN unchanged("FileGenerationError")
                 ELSE LET rendered == Rendered(image.self._parsed_questions.value)
                      IN  [err       |-> "none",
                           self      |-> [image.self EXCEPT !._parsed_questions = Some(rendered)],
                           files     |-> image.files,
                           documents |-> docs \cup
                               {[kind      |-> kind,
                                 questions |-> rendered,
                                 qr        |-> QrCell(image.files, image.self._qr_image_path)]}]

-----------------------------------------------------------------------------
(* The generator: questions loaded any number of times, the QR data built  *)
(* for the loaded questions, and the QR data scanned and decrypted.        *)

\* (total_points, password) of the explored configurations
ConfigInputs ==
    {<<100, <<"k", "9">>>>, <<7, <<" ", "-", "Z", " ">>>>, <<100, <<" ">>>>, <<7, <<"-", "-">>>>, <<0, <<"k", "9">>>>, <<7, <<>>>>}

\* the configurations constructed successfully, directly or by the builder
Configs ==
    {built.val : built \in {made \in {NewExamConfig(c[1], c[2]) : c \in ConfigInputs}
                                        \cup {BuildExamConfig(c[1], c[2]) : c \in ConfigInputs} :
                                made.err = "none"}}

OptionNames == <<<<"a">>, <<"b">>, <<"c">>, <<"d">>, <<"e">>>>

\* question dictionaries handed to set_questions: well-formed ones of two, four
\* and five options, and malformed ones
QuestionDicts ==
    {[question |-> <<"q", "?">>, options |-> SubSeq(OptionNames, 1, 4), correct_answer |-> 3],
     [question |-> <<"q", "?">>, options |-> SubSeq(OptionNames, 1, 2), correct_answer |-> 1],
     [question |-> <<"q", "?">>, options |-> SubSeq(OptionNames, 1, 5), correct_answer |-> 4],
     [question |-> <<"q", "?">>, options |-> SubSeq(OptionNames, 1, 4), correct_answer |-> 4],
     [question |-> <<"q", "?">>, options |-> SubSeq(OptionNames, 1, 1), correct_answer |-> 0],
     [question |-> <<"q", "?">>, options |-> SubSeq(OptionNames, 1, 4)]}

QuestionLists == SeqsUpTo(QuestionDicts, MaxQuestions)

\* pieces of the question files handed to load_questions_from_string
GeneratorChunks ==
    {<<<<"-", " ", "q", "1">>, <<"x">>, <<"y">>>>,
     <<<<"-", " ", "q", "2">>, <<"T", "R", "U", "E">>, <<"F", "a", "l", "s", "e">>>>,
     <<<<"-", " ", "q", "3">>, <<"z">>>>}

GeneratorContents == {Flatten(cs) : cs \in SeqsUpTo(GeneratorChunks, MaxQuestions)}

\* the files a load calls os.remove on: those of cleanup, which runs when
\* the load succeeds and a QR image path is cached
LoadAttempts(self, fs, outcome) ==
    IF outcome.err = "none" /\ self._qr_image_path # None
    THEN RemoveAttempts(self, fs)
    ELSE {}

GeneratorInit ==
    /\ config \in Configs
    /\ generator \in {NewExamGenerator(shuffle, m) :
                          shuffle \in BOOLEAN, m \in {0, MaxQuestions}}
    /\ raised = "none"
    /\ scanned = None
    /\ attempt = None
    /\ last_call = "none"
    /\ files = <<>>
    /\ documents = {}
    /\ faults = {}

\* a call of load_questions_from_file, load_questions_from_string or
\* set_questions whose first statement gave outcome
LoadStep(call, outcome) ==
    \E failing \in SUBSET LoadAttempts(generator, files, outcome) :
        LET load == TryLoad(generator, files, outcome, failing)
        IN  /\ generator' = load.self
            /\ files' = load.files
            /\ raised' = load.err
            /\ last_call' = call
            /\ scanned' = IF load.err = "none" THEN None ELSE scanned
            /\ attempt' = IF load.err = "none" THEN None ELSE attempt
            /\ documents' = IF load.err = "none" THEN {} ELSE documents
            /\ faults' = IF failing = {} THEN faults ELSE faults \cup {"remove failed"}
            /\ UNCHANGED config

\* generator.set_questions(qs) for a list of lists
SetQuestionsFrom(lists) ==
    /\ UNCHANGED notGeneratorVars
    /\ \E qs \in lists : LoadStep("set_questions", ValidateQuestions(qs))

\* generator.load_questions_from_string(text) for a text of contents
LoadQuestionsFromStringOf(contents) ==
    /\ UNCHANGED notGeneratorVars
    /\ \E text \in contents :
        \E perms \in ShuffleChoices(generator, text) :
            LoadStep("load_questions_from_string", ParseFromString(generator, text, perms))

\* QuestionParser.parse_from_file on a path with no file (None) or with a
\* file of the given text
ParseFromFile(self, file, perms) ==
    IF file = None THEN Raised("FileNotFoundError")
    ELSE ParseFromString(self, file.value, perms)

\* generator.load_questions_from_file(file_path) for a missing file or a file
\* with a text of contents
LoadQuestionsFromFileOf(contents) ==
    /\ UNCHANGED notGeneratorVars
    /\ \E file \in {None} \cup {Some(text) : text \in contents} :
        \E perms \in (IF file = None THEN {<<>>} ELSE ShuffleChoices(generator, file.value)) :
            LoadStep("load_questions_from_file", ParseFromFile(generator, file, perms))

SetQuestions == SetQuestionsFrom(QuestionLists)

LoadQuestionsFromString == LoadQuestionsFromStringOf(GeneratorContents)

\* generator._get_qr_data(), as the generate_* methods call it once questions
\* are loaded: the cached data if there is one, else built and cached
GetQrData ==
    /\ generator._parsed_questions # None
    /\ LET qr_data == GetQrDataOf(generator, config)
       IN  /\ generator' = qr_data.self
           /\ raised' = qr_data.err
    /\ last_call' = "_get_qr_data"
    /\ UNCHANGED <<config, scanned, attempt, files, documents, faults>>
    /\ UNCHANGED notGeneratorVars

\* decrypt_qr_code(qr_data, password) on the QR data of the generator, with
\* the password of its configuration
ScanQrCode ==
    /\ generator._qr_data # None
    /\ scanned' = Some(DecryptQrCode(generator._qr_data.value, config.password))
    /\ UNCHANGED <<config, generator, raised, attempt, last_call, files, documents, faults>>
    /\ UNCHANGED notGeneratorVars

\* passwords tried on a scanned QR code: those of the configurations, and
\* passwords that differ from them in the first or in a later character
ScanPasswords ==
    {<<"k", "9">>, <<"K", "9">>, <<"k", "8">>, <<"-", "k">>, <<"Z">>, <<"9", "Z">>, <<"-", "-">>}

\* decrypt_qr_code(qr_data, password) on the QR data of the generator, with
\* any password
ScanWithPassword ==
    /\ generator._qr_data # None
    /\ \E pw \in ScanPasswords :
        attempt' = Some([password |-> pw,
                         outcome  |-> DecryptQrCode(generator._qr_data.value, pw)])
    /\ UNCHANGED <<config, generator, raised, scanned, last_call, files, documents, faults>>
    /\ UNCHANGED notGeneratorVars

GeneratorNext ==
    SetQuestions \/ LoadQuestionsFromString \/ GetQrData \/ ScanQrCode \/ ScanWithPassword

-----------------------------------------------------------------------------
(* The generator and its temporary files: questions loaded, PDFs generated  *)
(* and temporary files cleaned up, any number of times and in any order,   *)
(* while the files may be deleted from outside and a deletion may fail.    *)

FewConfigs == {NewExamConfig(100, <<"k", "9">>).val, NewExamConfig(7, <<" ">>).val}

FewQuestionLists ==
    {<<[question |-> <<"q", "?">>, options |-> SubSeq(OptionNames, 1, 4), correct_answer |-> 3]>>,
     <<[question |-> <<"q", "?">>, options |-> SubSeq(OptionNames, 1, 2), correct_answer |-> 1],
       [question |-> <<"q", "?">>, options |-> SubSeq(OptionNames, 1, 4), correct_answer |-> 0]>>,
     <<[question |-> <<"q", "?">>, options |-> SubSeq(OptionNames, 1, 4), correct_answer |-> 3],
       [question |-> <<"q", "?">>, options |-> SubSeq(OptionNames, 1, 1), correct_answer |-> 0]>>,
     <<[question |-> <<"q", "?">>, options |-> SubSeq(OptionNames, 1, 4)]>>,
     <<>>}

\* a file of one question whose options are shuffled, a file whose second
\* block has one option, a file without a question block, and an empty file
FewContents ==
    {<<<<"-", " ", "q", "1">>, <<"x">>, <<"y">>>>,
     <<<<"-", " ", "q", "1">>, <<"x">>, <<"y">>, <<"-", " ", "q", "3">>, <<"z">>>>,
     <<<<"q", "1">>>>,
     <<>>}

FilesInit ==
    /\ config \in FewConfigs
    /\ generator = NewExamGenerator(TRUE, MaxQuestions)
    /\ raised = "none"
    /\ scanned = None
    /\ attempt = None
    /\ last_call = "none"
    /\ files = <<>>
    /\ documents = {}
    /\ faults = {}

SetFewQuestions == SetQuestionsFrom(FewQuestionLists)

LoadFewFromString == LoadQuestionsFromStringOf(FewContents)

LoadFewFromFile == LoadQuestionsFromFileOf(FewContents)

\* a call of generate_student_exam, generate_answer_key or generate_both that
\* left result; at most MaxTempFiles temporary files are created
GenerateStep(call, result) ==
    /\ Len(result.files) <= MaxTempFiles
    /\ generator' = result.self
    /\ files' = result.files
    /\ documents' = result.documents
    /\ raised' = result.err
    /\ last_call' = call
    /\ UNCHANGED <<config, scanned, attempt, faults>>
    /\ UNCHANGED notGeneratorVars

\* generator.generate_student_exam(output_path)
GenerateStudentExam ==
    GenerateStep("generate_student_exam",
                 GenerateOf(generator, config, files, documents, "student"))

\* generator.generate_answer_key(output_path)
GenerateAnswerKey ==
    GenerateStep("generate_answer_key",
                 GenerateOf(generator, config, files, documents, "answer_key"))

\* generator.generate_both(student_path, answer_key_path): the answer key is
\* generated if the student exam was
GenerateBoth ==
    LET student == GenerateOf(generator, config, files, documents, "student")
    IN  GenerateStep("generate_both",
                     IF student.err # "none" THEN student
                     ELSE GenerateOf(student.self, config, student.files,
                                     student.documents, "answer_key"))

\* generator.cleanup(); os.remove raises for any of the files it is called on
Cleanup ==
    /\ \E failing \in SUBSET RemoveAttempts(generator, files) :
        LET left == CleanupOf(generator, files, failing)
        IN  /\ generator' = left.self
            /\ files' = left.files
            /\ faults' = IF failing = {} THEN faults ELSE faults \cup {"remove failed"}
    /\ raised' = "none"
    /\ last_call' = "cleanup"
    /\ UNCHANGED <<config, scanned, attempt, documents>>
    /\ UNCHANGED notGeneratorVars

\* a temporary file is deleted from outside the generator
DeleteExternally ==
    /\ \E name \in 1..Len(files) :
        /\ Exists(files, name)
        /\ files' = Removed(files, {name})
    /\ faults' = faults \cup {"deleted externally"}
    /\ UNCHANGED <<config, generator, raised, scanned, attempt, last_call, documents>>
    /\ UNCHANGED notGeneratorVars

FilesNext ==
    \/ SetFewQuestions
    \/ LoadFewFromString
    \/ LoadFewFromFile
    \/ GenerateStudentExam
    \/ GenerateAnswerKey
    \/ GenerateBoth
    \/ Cleanup
    \/ DeleteExternally

-----------------------------------------------------------------------------
(* The source of randomness of _shuffle_options: random.shuffle, which draws *)
(* from the generator shared by the whole random module.  A caller that     *)
(* wants a reproducible order seeds that generator with random.seed and     *)
(* then calls the shuffle; any other shuffle of the process draws from the  *)
(* same generator.                                                          *)

\* seeds a caller passes to random.seed; 0 stands for the state the module
\* was imported with
Seeds == {1, 2}
GeneratorSeeds == {0} \cup Seeds

\* option lists with two non-empty options, with and without padding
SeededOptionLists ==
    {<< <<"x">>, <<"y">> >>,
     << <<"x">>, <<"y">>, <<>>, <<>> >>,
     << <<"x">>, <<>>, <<"y">>, <<>> >>}

\* the generator is deterministic: the order random.shuffle leaves two items
\* in is a function of the seed and of the shuffles drawn since
RandomOrders == [GeneratorSeeds \X (0..MaxDraws) -> Perms(2)]

\* random.shuffle(options_with_flags) of _shuffle_options: the order left by
\* the shared generator in its current state
RandomShuffleOrder == random_orders[<<random_state.seed, random_state.drawn>>]

SeededInit ==
    /\ random_state = [seed |-> 0, drawn |-> 0]
    /\ random_orders \in RandomOrders
    /\ seeded_options \in SeededOptionLists
    /\ pc_seeded = "idle"
    /\ shuffle_runs = {}

\* random.seed(s) by the caller
RandomSeed ==
    /\ pc_seeded = "idle"
    /\ \E s \in Seeds : random_state' = [seed |-> s, drawn |-> 0]
    /\ pc_seeded' = "seeded"
    /\ UNCHANGED <<random_orders, seeded_options, shuffle_runs>>
    /\ UNCHANGED notSeededVars

\* the caller's _shuffle_options on a copy of the option list
SeededShuffle ==
    /\ pc_seeded = "seeded"
    /\ LET result == ShuffleOptions(seeded_options, RandomShuffleOrder)
       IN  shuffle_runs' = shuffle_runs \cup
               {[seed |-> random_state.seed, options |-> result.options,
                 new_correct_index |-> result.new_correct_index]}
    /\ random_state' = [random_state EXCEPT !.drawn = @ + 1]
    /\ pc_seeded' = "idle"
    /\ UNCHANGED <<random_orders, seeded_options>>
    /\ UNCHANGED notSeededVars

\* _shuffle_options called elsewhere in the process, on another list of two
\* non-empty options: it draws from the same generator
OtherShuffle ==
    /\ random_state.drawn < MaxDraws
    /\ random_state' = [random_state EXCEPT !.drawn = @ + 1]
    /\ UNCHANGED <<random_orders, seeded_options, pc_seeded, shuffle_runs>>
    /\ UNCHANGED notSeededVars

SeededNext == RandomSeed \/ SeededShuffle \/ OtherShuffle

-----------------------------------------------------------------------------
(* The first generator, TestGenerator (test_generator.py), with the parser  *)
(* of question_parser.py: it parses the question file anew in each of      *)
(* generate_pdf and generate_answer_key_pdf and keeps the QR data of the    *)
(* first of the two calls.                                                 *)

\* TestConfig.total
LegacyTotal == 50

\* what parse_questions makes of the stripped, non-empty lines of a block;
\* perm is the order random.shuffle leaves, used when the block is shuffled
LegacyParseBlock(self, lines, perm) ==
    LET opts == IF Len(lines) > 1 THEN Slice(lines, 1, 5) ELSE <<>>
        options_with_flags == [i \in 1..Len(opts) |-> [option |-> opts[i], is_correct |-> i = 1]]
        shuffled == [i \in 1..Len(opts) |-> options_with_flags[perm[i]]]
    IN  IF self.shuffle_options /\ Len(opts) > 1
        THEN [question       |-> lines[1],
              options        |-> [i \in 1..Len(shuffled) |-> shuffled[i].option],
              correct_answer |-> (CHOOSE i \in 1..Len(shuffled) : shuffled[i].is_correct) - 1]
        ELSE [question |-> lines[1], options |-> opts, correct_answer |-> 0]

\* QuestionParser.parse_questions of question_parser.py on the content of the
\* file; perms[n] is the order random.shuffle leaves for block n
LegacyParseQuestions(self, text, perms) ==
    LET question_blocks == QuestionBlocks(text)
        HasLines(n)     == Len(question_blocks[n]) > 0
        kept            == SelectSeq([n \in 1..Len(question_blocks) |-> n], HasLines)
    IN  [k \in 1..Len(kept) |-> LegacyParseBlock(self, question_blocks[kept[k]], perms[kept[k]])]

\* the outcomes random.shuffle can have over one parse_questions call: a
\* permutation of the options for each block of more than one option
LegacyShuffleChoices(self, text) ==
    LET question_blocks == QuestionBlocks(text)
        OptionCount(n)  == IF Len(question_blocks[n]) > 1
                           THEN Len(Slice(question_blocks[n], 1, 5)) ELSE 0
    IN  PermSeqs([n \in 1..Len(question_blocks) |->
                    IF self.shuffle_options /\ OptionCount(n) > 1 THEN OptionCount(n) ELSE 0])

\* the QR data generate_pdf and generate_answer_key_pdf use: prepared from
\* the questions just parsed unless the generator has the attribute already
LegacyQrData(self, parsed) ==
    IF self._qr_data # None THEN self._qr_data.value
    ELSE PrepareQrData([i \in 1..Len(parsed) |-> parsed[i].correct_answer], self.total)

\* pieces of the question files of the first generator: a question of two
\* options, a true/false question, and a question of one option
LegacyChunks ==
    {<<<<"-", " ", "q", "1">>, <<"x">>, <<"y">>>>,
     <<<<"-", " ", "q", "2">>, <<"T", "R", "U", "E">>, <<"F", "a", "l", "s", "e">>>>,
     <<<<"-", " ", "q", "3">>, <<"z">>>>}

LegacyContents == {Flatten(cs) : cs \in SeqsUpTo(LegacyChunks, MaxBlocks)}

\* the last two calls, once call is made
LastTwo(calls, call) ==
    IF Len(calls) < 2 THEN Append(calls, call) ELSE <<calls[2], call>>

LegacyInit ==
    /\ input_file \in LegacyContents
    /\ test_generator \in [shuffle_options : BOOLEAN, total : {LegacyTotal}, _qr_data : {None}]
    /\ student_pdf = None
    /\ answer_key_pdf = None
    /\ legacy_calls = <<>>

\* TestGenerator.generate_pdf()
GeneratePdf ==
    /\ \E perms \in LegacyShuffleChoices(test_generator, input_file) :
        LET parsed  == LegacyParseQuestions(test_generator, input_file, perms)
            qr_data == LegacyQrData(test_generator, parsed)
        IN  /\ test_generator' = [test_generator EXCEPT !._qr_data = Some(qr_data)]
            /\ student_pdf' = Some([questions |-> parsed, qr |-> qr_data])
    /\ legacy_calls' = LastTwo(legacy_calls, "generate_pdf")
    /\ UNCHANGED <<input_file, answer_key_pdf>>
    /\ UNCHANGED notLegacyVars

\* TestGenerator.generate_answer_key_pdf(output_file, password)
GenerateAnswerKeyPdf ==
    /\ \E perms \in LegacyShuffleChoices(test_generator, input_file) :
        LET parsed  == LegacyParseQuestions(test_generator, input_file, perms)
            qr_data == LegacyQrData(test_generator, parsed)
        IN  /\ test_generator' = [test_generator EXCEPT !._qr_data = Some(qr_data)]
            /\ answer_key_pdf' = Some([questions |-> parsed, qr |-> qr_data])
    /\ legacy_calls' = LastTwo(legacy_calls, "generate_answer_key_pdf")
    /\ UNCHANGED <<input_file, student_pdf>>
    /\ UNCHANGED notLegacyVars

LegacyNext == GeneratePdf \/ GenerateAnswerKeyPdf

-----------------------------------------------------------------------------
(* Specifications: one per component run; the other components stay idle.  *)

CipherIdle ==
    /\ encryptor = NewAnswerKeyEncryption
    /\ plaintext = <<>>
    /\ password = <<>>
    /\ pc_cipher = "idle"
    /\ encrypted = NoResult
    /\ decrypted = NoResult

CodecIdle ==
    /\ summary = [num_questions |-> 0, total_points |-> 0, answers |-> <<>>]
    /\ payload = <<>>
    /\ pc_codec = "idle"
    /\ parsed_payload = NoResult

ShuffleIdle ==
    /\ options_before = <<>>
    /\ options = <<>>
    /\ pc_shuffle = "idle"
    /\ new_correct_index = 0
    /\ is_true_false = FALSE

ParserIdle ==
    /\ parser = [shuffle_options |-> TRUE]
    /\ content = <<>>
    /\ pc_parser = "idle"
    /\ questions = NoResult

GeneratorIdle ==
    /\ config = [total |-> 1, password |-> <<>>]
    /\ generator = NewExamGenerator(TRUE, 1)
    /\ raised = "none"
    /\ scanned = None
    /\ attempt = None
    /\ last_call = "none"
    /\ files = <<>>
    /\ documents = {}
    /\ faults = {}

SeededIdle ==
    /\ random_state = [seed |-> 0, drawn |-> 0]
    /\ random_orders = <<>>
    /\ seeded_options = <<>>
    /\ pc_seeded = "idle"
    /\ shuffle_runs = {}

LegacyIdle ==
    /\ input_file = <<>>
    /\ test_generator = [shuffle_options |-> TRUE, total |-> LegacyTotal, _qr_data |-> None]
    /\ student_pdf = None
    /\ answer_key_pdf = None
    /\ legacy_calls = <<>>

CompatIdle ==
    /\ legacy_encrypted = NoResult
    /\ cross_decrypted = [by_legacy |-> NoResult, by_packaged |-> NoResult]

CipherRunInit == CipherInit /\ CodecIdle /\ ShuffleIdle /\ ParserIdle /\ GeneratorIdle /\ SeededIdle /\ LegacyIdle
CodecRunInit == CodecInit /\ CipherIdle /\ ShuffleIdle /\ ParserIdle /\ GeneratorIdle /\ SeededIdle /\ LegacyIdle /\ CompatIdle
ShuffleRunInit == ShuffleInit /\ CipherIdle /\ CodecIdle /\ ParserIdle /\ GeneratorIdle /\ SeededIdle /\ LegacyIdle /\ CompatIdle
ParserRunInit == ParserInit /\ CipherIdle /\ CodecIdle /\ ShuffleIdle /\ GeneratorIdle /\ SeededIdle /\ LegacyIdle /\ CompatIdle
SeededRunInit == SeededInit /\ CipherIdle /\ CodecIdle /\ ShuffleIdle /\ ParserIdle /\ GeneratorIdle /\ LegacyIdle /\ CompatIdle
FilesRunInit == FilesInit /\ CipherIdle /\ CodecIdle /\ ShuffleIdle /\ ParserIdle /\ SeededIdle /\ LegacyIdle /\ CompatIdle
LegacyRunInit == LegacyInit /\ CipherIdle /\ CodecIdle /\ ShuffleIdle /\ ParserIdle /\ GeneratorIdle /\ SeededIdle /\ CompatIdle
Init == GeneratorInit /\ CipherIdle /\ CodecIdle /\ ShuffleIdle /\ ParserIdle /\ SeededIdle /\ LegacyIdle /\ CompatIdle

Next == GeneratorNext

SpecCipher == CipherRunInit /\ [][CipherNext]_vars
SpecCodec == CodecRunInit /\ [][CodecNext]_vars
SpecShuffle == ShuffleRunInit /\ [][ShuffleNext]_vars
SpecParser == ParserRunInit /\ [][ParserNext]_vars
SpecSeeded == SeededRunInit /\ [][SeededNext]_vars
SpecFiles == FilesRunInit /\ [][FilesNext]_vars
SpecLegacy == LegacyRunInit /\ [][LegacyNext]_vars
Spec == Init /\ [][Next]_vars

-----------------------------------------------------------------------------
(* Properties of the cipher. *)

\* the 62 symbols of the alphabet, whatever their order
AlphabetSymbols == Range(digits) \cup Range(ascii_uppercase) \cup Range(ascii_lowercase)

HasAlphabetChar(s) == \E i \in 1..Len(s) : s[i] \in AlphabetSymbols

OnlyAlphabet(s) == SelectSeq(s, LAMBDA c : c \in AlphabetSymbols)

\* position of symbol c in the encryptor's alphabet, from 0
IndexOf(c) == CHOOSE i \in 0..(Len(encryptor.alphabet) - 1) : encryptor.alphabet[i + 1] = c

\* number of alphabet characters of s before position i
AlphabetCharsBefore(s, i) == Cardinality({j \in 1..(i - 1) : s[j] \in AlphabetSymbols})

\* C1: round trip. For every non-empty text (alphabet characters or not) and
\* every password with at least one alphabet character, encrypt succeeds and
\* decrypt of its result under the same password returns the text.
C1_RoundTrip ==
    (Len(plaintext) > 0 /\ HasAlphabetChar(password)) =>
        /\ pc_cipher \in {"encrypted", "decrypted"} => encrypted.err = "none"
        /\ pc_cipher = "decrypted" => decrypted = Returned(plaintext)

\* a text mixing alphabet and other characters, really changed by encrypt under a
\* password that itself holds a character outside the alphabet, and recovered
C1_Witness ==
    /\ pc_cipher = "decrypted"
    /\ decrypted = Returned(plaintext)
    /\ encrypted.val # plaintext
    /\ \E i, j \in 1..Len(plaintext) :
          /\ i < j
          /\ plaintext[i] \notin AlphabetSymbols
          /\ plaintext[j] \in AlphabetSymbols
    /\ \E i \in 1..Len(password) : password[i] \notin AlphabetSymbols

\* C5: the packaged cipher's alphabet is digits, then A-Z, then a-z, 62 distinct
\* symbols, index = position (index('A') = 10, index('a') = 36), modulus 62.
C5_AlphabetOrder ==
    /\ encryptor.alphabet = digits \o ascii_uppercase \o ascii_lowercase
    /\ Cardinality(Range(encryptor.alphabet)) = 62
    /\ encryptor.alphabet_size = 62
    /\ \A i \in 1..Len(encryptor.alphabet) :
          encryptor.alphabet_index[encryptor.alphabet[i]] = i - 1
    /\ encryptor.alphabet_index["A"] = 10
    /\ encryptor.alphabet_index["a"] = 36

\* C7: pass-through. In encrypt and in decrypt a character outside the
\* alphabet comes out unchanged at the same position, and the output's
\* alphabet characters are those obtained from the input with the other
\* characters removed (they consume no key-schedule entry).
C7_PassThrough ==
    /\ (pc_cipher \in {"encrypted", "decrypted"} /\ encrypted.err = "none") =>
          /\ Len(encrypted.val) = Len(plaintext)
          /\ \A i \in 1..Len(plaintext) :
                plaintext[i] \notin AlphabetSymbols => encrypted.val[i] = plaintext[i]
          /\ Len(OnlyAlphabet(plaintext)) > 0 =>
                OnlyAlphabet(encrypted.val) =
                    EncryptText(encryptor, OnlyAlphabet(plaintext), password).val
    /\ (pc_cipher = "decrypted" /\ decrypted.err = "none") =>
          /\ Len(decrypted.val) = Len(encrypted.val)
          /\ \A i \in 1..Len(encrypted.val) :
                encrypted.val[i] \notin AlphabetSymbols => decrypted.val[i] = encrypted.val[i]
          /\ Len(OnlyAlphabet(encrypted.val)) > 0 =>
                OnlyAlphabet(decrypted.val) =
                    DecryptText(encryptor, OnlyAlphabet(encrypted.val), password).val

\* a decrypted text with a character outside the alphabet between two alphabet
\* characters, under a key of two different indices
C7_Witness ==
    /\ pc_cipher = "decrypted"
    /\ decrypted.err = "none"
    /\ Len(plaintext) = 3
    /\ plaintext[1] \in AlphabetSymbols
    /\ plaintext[2] \notin AlphabetSymbols
    /\ plaintext[3] \in AlphabetSymbols
    /\ encrypted.val[2] = plaintext[2]
    /\ Len(OnlyAlphabet(password)) = 2
    /\ OnlyAlphabet(password)[1] # OnlyAlphabet(password)[2]

\* C8: encrypt formula. The j-th alphabet character of the plaintext (from 0),
\* of index p, becomes the symbol at index (p + key_schedule[j mod len]) mod 62,
\* key_schedule being the indices of the password's alphabet characters; the
\* index is in 0..61.
C8_EncryptFormula ==
    (pc_cipher \in {"encrypted", "decrypted"} /\ encrypted.err = "none") =>
        LET key_chars == OnlyAlphabet(password)
        IN  \A i \in 1..Len(plaintext) :
                plaintext[i] \in AlphabetSymbols =>
                    LET j == AlphabetCharsBefore(plaintext, i)
                        p == IndexOf(plaintext[i])
                        k == IndexOf(key_chars[(j % Len(key_chars)) + 1])
                        c == (p + k) % 62
                    IN  /\ c \in 0..61
                        /\ encrypted.val[i] = encryptor.alphabet[c + 1]

\* three alphabet characters under a two-character key: the key wraps, and one
\* sum passes 61
C8_Witness ==
    /\ pc_cipher = "encrypted"
    /\ encrypted.err = "none"
    /\ Len(OnlyAlphabet(plaintext)) = 3
    /\ Len(OnlyAlphabet(password)) = 2
    /\ OnlyAlphabet(password)[1] # OnlyAlphabet(password)[2]
    /\ \E i \in 1..3 :
          IndexOf(plaintext[i]) + IndexOf(OnlyAlphabet(password)[((i - 1) % 2) + 1]) > 61

\* C16: unauthenticated decrypt. decrypt returns a string and never raises,
\* for every non-empty input string, produced by encrypt or not, and every
\* password with at least one alphabet character.
C16_DecryptNeverRaises ==
    /\ (pc_cipher = "deciphered" /\ Len(plaintext) > 0 /\ HasAlphabetChar(password)) =>
            /\ decrypted.err = "none"
            /\ Len(decrypted.val) = Len(plaintext)
    /\ (pc_cipher = "decrypted" /\ HasAlphabetChar(password)) => decrypted.err = "none"

\* a text with characters outside the alphabet, decrypted to another text
C16_Witness ==
    /\ pc_cipher = "deciphered"
    /\ HasAlphabetChar(password)
    /\ \E i \in 1..Len(plaintext) : plaintext[i] \notin AlphabetSymbols
    /\ decrypted.err = "none"
    /\ decrypted.val # plaintext

\* the passwords with the same alphabet characters, in the same order, as pw
SameEffectiveKey(pw) == {k \in Keys : OnlyAlphabet(k) = OnlyAlphabet(pw)}

\* C17: effective key. Only the alphabet characters of the password
\* contribute: two passwords whose subsequences of alphabet characters are
\* equal give the same outcome of encrypt, and of decrypt, on every non-empty
\* input.
C17_EffectiveKey ==
    /\ (pc_cipher = "encrypted" /\ Len(plaintext) > 0) =>
            \A k \in SameEffectiveKey(password) :
                /\ EncryptText(encryptor, plaintext, k) = encrypted
                /\ HasAlphabetChar(k) => encrypted.err = "none"
    /\ (pc_cipher = "deciphered" /\ Len(plaintext) > 0) =>
            \A k \in SameEffectiveKey(password) :
                /\ DecryptText(encryptor, plaintext, k) = decrypted
                /\ HasAlphabetChar(k) => decrypted.err = "none"

\* an encryption that changed the text, under a password that has a character
\* outside the alphabet before its alphabet character and so shares its
\* effective key with a shorter password
C17_Witness ==
    /\ pc_cipher = "encrypted"
    /\ Len(password) = 2
    /\ password[1] \notin AlphabetSymbols
    /\ password[2] \in AlphabetSymbols
    /\ <<password[2]>> \in SameEffectiveKey(password)
    /\ encrypted.err = "none"
    /\ encrypted.val # plaintext

\* C18: empty effective key. encrypt and decrypt fail with an EncryptionError,
\* producing no output, for every password without an alphabet character, the
\* empty password included, whatever the text.
C18_EmptyEffectiveKey ==
    ~HasAlphabetChar(password) =>
        /\ pc_cipher = "encrypted" => encrypted = Raised("EncryptionError")
        /\ pc_cipher = "deciphered" => decrypted = Raised("EncryptionError")

\* a decrypt of a non-empty text under a non-empty password made of characters
\* outside the alphabet
C18_Witness ==
    /\ pc_cipher = "deciphered"
    /\ Len(plaintext) > 0
    /\ Len(password) = MaxKeyLen
    /\ ~HasAlphabetChar(password)
    /\ decrypted.err = "EncryptionError"

\* C19: empty input. encrypt fails with an EncryptionError when the plaintext
\* is empty, decrypt when the ciphertext is empty, for every password; neither
\* ever returns an empty string.
C19_EmptyInput ==
    /\ (pc_cipher = "encrypted" /\ Len(plaintext) = 0) => encrypted = Raised("EncryptionError")
    /\ (pc_cipher = "deciphered" /\ Len(plaintext) = 0) => decrypted = Raised("EncryptionError")
    /\ encrypted.err = "none" => Len(encrypted.val) > 0
    /\ decrypted.err = "none" => Len(decrypted.val) > 0

\* an encrypt of the empty text refused under a password that is a valid key
C19_Witness ==
    /\ pc_cipher = "encrypted"
    /\ Len(plaintext) = 0
    /\ HasAlphabetChar(password)
    /\ encrypted.err = "EncryptionError"

\* C26: cross-implementation compatibility. For every non-empty plaintext
\* and every password made only of alphabet characters, the packaged
\* encrypt_answer_data and that of encryption_utils return the same
\* ciphertext, and the ciphertext of either decrypts to the plaintext with
\* the decrypt_answer_data of the other.
C26_CrossCompatibility ==
    (/\ pc_cipher = "crossed"
     /\ Len(plaintext) > 0
     /\ Len(password) > 0
     /\ \A i \in 1..Len(password) : password[i] \in AlphabetSymbols) =>
        /\ encrypted.err = "none"
        /\ legacy_encrypted = encrypted
        /\ cross_decrypted.by_legacy = Returned(plaintext)
        /\ cross_decrypted.by_packaged = Returned(plaintext)

\* what does hold for these inputs: each implementation encrypts without an
\* error, to a text of the length of the plaintext that differs from it in
\* alphabet characters only
C26_BothEncrypt ==
    (/\ pc_cipher = "crossed"
     /\ Len(plaintext) > 0
     /\ Len(password) > 0
     /\ \A i \in 1..Len(password) : password[i] \in AlphabetSymbols) =>
        /\ encrypted.err = "none"
        /\ legacy_encrypted.err = "none"
        /\ Len(legacy_encrypted.val) = Len(encrypted.val)
        /\ \A i \in 1..Len(plaintext) :
              plaintext[i] \notin AlphabetSymbols =>
                  /\ encrypted.val[i] = plaintext[i]
                  /\ legacy_encrypted.val[i] = plaintext[i]

-----------------------------------------------------------------------------
(* Properties of the payload codec. *)

\* C6: payload idempotence. For every valid summary (n >= 0 questions,
\* p >= 0 points, n indices in 0..3) the canonical string Q<n>_P<p>_<letters>
\* parses back to exactly n, p and the indices; n = 0 gives Q0_P<p>_ and an
\* empty index list.
C6_PayloadIdempotence ==
    /\ (pc_codec \in {"encoded", "parsed"} /\ summary.num_questions = 0) =>
            payload = <<"Q", "0", "_", "P">> \o PyStr(summary.total_points) \o <<"_">>
    /\ pc_codec = "parsed" =>
            /\ parsed_payload.err = "none"
            /\ parsed_payload.val.num_questions = summary.num_questions
            /\ parsed_payload.val.total_points = summary.total_points
            /\ parsed_payload.val.answers = summary.answers

\* a parsed summary of several questions using all four letters, with a count
\* and a total of more than one digit
C6_Witness ==
    /\ pc_codec = "parsed"
    /\ parsed_payload.err = "none"
    /\ summary.num_questions >= 10
    /\ summary.total_points >= 1000
    /\ Range(parsed_payload.val.answers) = 0..3
    /\ parsed_payload.val.answers = summary.answers

\* the boundary of C6: no question at all
C6_WitnessEmpty ==
    /\ pc_codec = "parsed"
    /\ summary.num_questions = 0
    /\ parsed_payload.err = "none"
    /\ parsed_payload.val.answers = <<>>

\* the '_'-separated parts of the payload received
ReceivedParts == SplitOn(payload, "_")

\* a non-empty run of decimal digits
IsNatural(text) == Len(text) > 0 /\ \A i \in 1..Len(text) : text[i] \in Range(digits)

\* the second part of the payload is 'P' followed by a non-negative integer
PointsPartWellFormed ==
    /\ Len(ReceivedParts) >= 2
    /\ StartsWith(ReceivedParts[2], "P")
    /\ IsNatural(Tail(ReceivedParts[2]))

\* C13: parse_decrypted_qr_data fails for every payload whose second part is
\* not 'P' followed by a non-negative integer; it never returns a summary with
\* a negative total_points.
C13_NonNegativePoints ==
    (pc_codec = "scanned" /\ parsed_payload.err = "none") =>
        /\ PointsPartWellFormed
        /\ parsed_payload.val.total_points >= 0

\* the payload passes every check made before the letters run is looked at:
\* three parts, 'Q' and an int() literal, 'P' and an int() literal
ReachesLettersRun ==
    /\ Len(ReceivedParts) = 3
    /\ StartsWith(ReceivedParts[1], "Q") /\ PyInt(Tail(ReceivedParts[1])).err = "none"
    /\ StartsWith(ReceivedParts[2], "P") /\ PyInt(Tail(ReceivedParts[2])).err = "none"

ReceivedCount == PyInt(Tail(ReceivedParts[1])).val
ReceivedLetters == ReceivedParts[3]

CountMismatch == "ValueError: Expected {num_questions} answers, got {len(answers_string)}"
InvalidLetter == "ValueError: Invalid answer letter"

\* 0, 1, 2, 3 for A, B, C, D
LetterIndex(letter) == CHOOSE k \in 0..3 : <<"A", "B", "C", "D">>[k + 1] = letter

\* C14: letters-run validation. Parsing fails with the count-mismatch error
\* when the length of the third part differs from question_count, whatever the
\* letters are; otherwise it fails with the invalid-letter error when a
\* character is not one of A, B, C, D; otherwise it succeeds and the i-th
\* index is 0, 1, 2, 3 for A, B, C, D.
C14_LettersValidation ==
    (pc_codec = "scanned" /\ ReachesLettersRun) =>
        IF Len(ReceivedLetters) # ReceivedCount
        THEN parsed_payload.err = CountMismatch
        ELSE IF \E i \in 1..Len(ReceivedLetters) : ReceivedLetters[i] \notin {"A", "B", "C", "D"}
        THEN parsed_payload.err = InvalidLetter
        ELSE /\ parsed_payload.err = "none"
             /\ Len(parsed_payload.val.answers) = ReceivedCount
             /\ \A i \in 1..ReceivedCount :
                    parsed_payload.val.answers[i] = LetterIndex(ReceivedLetters[i])

\* a payload with too few letters, one of them not a letter A..D, rejected for
\* the count
C14_Witness ==
    /\ pc_codec = "scanned"
    /\ ReachesLettersRun
    /\ ReceivedCount > Len(ReceivedLetters)
    /\ \E i \in 1..Len(ReceivedLetters) : ReceivedLetters[i] \notin {"A", "B", "C", "D"}
    /\ parsed_payload.err = CountMismatch

\* a payload accepted with the letters D, B, A
C14_WitnessAccepted ==
    /\ pc_codec = "scanned"
    /\ ReachesLettersRun
    /\ ReceivedLetters = <<"D", "B", "A">>
    /\ parsed_payload.err = "none"
    /\ parsed_payload.val.answers = <<3, 1, 0>>

\* value of an uppercase hexadecimal digit
HexValue(c) == CHOOSE v \in 0..15 : HexDigits[v + 1] = c

\* the legacy packed shape Q<n>P<p>A<hex> of a payload without underscores:
\* the positions of its markers P and A, with whole bytes after A, enough of
\* them for n two-bit values
LegacyMarkers(text) ==
    {m \in (1..Len(text)) \X (1..Len(text)) :
        /\ text[1] = "Q" /\ text[m[1]] = "P" /\ text[m[2]] = "A"
        /\ IsNatural(SubSeq(text, 2, m[1] - 1))
        /\ IsNatural(SubSeq(text, m[1] + 1, m[2] - 1))
        /\ \A i \in (m[2] + 1)..Len(text) : text[i] \in Range(HexDigits)
        /\ (Len(text) - m[2]) % 2 = 0
        /\ 2 * ((DecimalValue(SubSeq(text, 2, m[1] - 1)) + 3) \div 4) <= Len(text) - m[2]}

IsLegacyPacked(text) ==
    /\ \A i \in 1..Len(text) : text[i] # "_"
    /\ LegacyMarkers(text) # {}

\* the i-th two-bit value (from 0) of the hex bytes, most significant pair first
TwoBitGroup(hex, i) ==
    LET byte  == 16 * HexValue(hex[2 * (i \div 4) + 1]) + HexValue(hex[2 * (i \div 4) + 2])
        shift == 6 - 2 * (i % 4)
    IN  (byte \div (2 ^ shift)) % 4

\* what the claim says a legacy payload parses to
LegacySummary(text) ==
    LET m   == CHOOSE x \in LegacyMarkers(text) : TRUE
        n   == DecimalValue(SubSeq(text, 2, m[1] - 1))
        hex == SubSeq(text, m[2] + 1, Len(text))
    IN  [num_questions |-> n,
         total_points  |-> DecimalValue(SubSeq(text, m[1] + 1, m[2] - 1)),
         answers       |-> [i \in 1..n |-> TwoBitGroup(hex, i - 1)]]

\* C15: parse accepts both payload forms. A payload without underscores of
\* the legacy shape Q<n>P<p>A<hex> is parsed by unpacking the hex bytes into
\* two-bit values, most significant pair first, truncated to n entries;
\* 'Q4P50A1B' parses to question_count 4, total_points 50 and the indices
\* 0, 1, 2, 3 of byte 0x1B.
C15_LegacyPackedForm ==
    (pc_codec = "scanned" /\ IsLegacyPacked(payload)) =>
        /\ parsed_payload.err = "none"
        /\ parsed_payload.val.num_questions = LegacySummary(payload).num_questions
        /\ parsed_payload.val.total_points = LegacySummary(payload).total_points
        /\ parsed_payload.val.answers = LegacySummary(payload).answers
        /\ payload = <<"Q", "4", "P", "5", "0", "A", "1", "B">> =>
                /\ parsed_payload.val.num_questions = 4
                /\ parsed_payload.val.total_points = 50
                /\ parsed_payload.val.answers = <<0, 1, 2, 3>>

\* text is the decimal numeral of n: digits only, no leading zero
IsDecimalOf(text, n) ==
    /\ IsNatural(text)
    /\ DecimalValue(text) = n
    /\ Len(text) > 1 => text[1] # "0"

\* the count, the points and the hex digits of a packed payload
PackedCount(text) == SubSeq(text, 2, (CHOOSE x \in LegacyMarkers(text) : TRUE)[1] - 1)
PackedPoints(text) ==
    LET m == CHOOSE x \in LegacyMarkers(text) : TRUE IN SubSeq(text, m[1] + 1, m[2] - 1)
PackedHex(text) == SubSeq(text, (CHOOSE x \in LegacyMarkers(text) : TRUE)[2] + 1, Len(text))

\* C21: legacy packed encoding. For n answers of values 0..3,
\* encode_answers_to_hex returns 2*ceil(n/4) uppercase hex digits in which
\* byte j packs answers 4j..4j+3 two bits each, most significant pair first,
\* the answers missing from the last group counted as 0; _prepare_qr_data
\* emits 'Q<n>P<total>A<hex>'.
C21_LegacyPackedEncoding ==
    pc_codec = "packed" =>
        /\ IsLegacyPacked(payload)
        /\ IsDecimalOf(PackedCount(payload), summary.num_questions)
        /\ IsDecimalOf(PackedPoints(payload), summary.total_points)
        /\ Len(PackedHex(payload)) = 2 * ((summary.num_questions + 3) \div 4)
        /\ \A i \in 0..(2 * Len(PackedHex(payload)) - 1) :
              TwoBitGroup(PackedHex(payload), i) =
                  IF i < summary.num_questions THEN summary.answers[i + 1] ELSE 0

\* a packed payload of more than one byte with a last group that is not
\* full, over all four answer values
C21_Witness ==
    /\ pc_codec = "packed"
    /\ summary.num_questions > 4
    /\ summary.num_questions % 4 # 0
    /\ Range(summary.answers) = 0..3
    /\ Len(PackedHex(payload)) = 2 * ((summary.num_questions + 3) \div 4)

-----------------------------------------------------------------------------
(* Properties of the option shuffle and of the parser. *)

\* number of entries of list s equal to x
Count(s, x) == Cardinality({i \in 1..Len(s) : s[i] = x})

\* the true/false pairs of the lexicon: <<word for true, word for false>>
RecognizedPairs ==
    {<<<<"t", "r", "u", "e">>, <<"f", "a", "l", "s", "e">>>>,
     <<<<"v", "e", "r", "d", "a", "d", "e", "r", "o">>, <<"f", "a", "l", "s", "o">>>>,
     <<<<"y", "e", "s">>, <<"n", "o">>>>,
     <<<<"s", "í">>, <<"n", "o">>>>,
     <<<<"s", "i">>, <<"n", "o">>>>,
     <<<<"v">>, <<"f">>>>,
     <<<<"t">>, <<"f">>>>,
     <<<<"c", "i", "e", "r", "t", "o">>, <<"f", "a", "l", "s", "o">>>>,
     <<<<"c", "o", "r", "r", "e", "c", "t", "o">>, <<"i", "n", "c", "o", "r", "r", "e", "c", "t", "o">>>>}

LexiconTrue == {p[1] : p \in RecognizedPairs}
LexiconFalse == {p[2] : p \in RecognizedPairs}

\* the non-empty options, trimmed and lower-cased
Normalized(opts) ==
    LET kept == SelectSeq(opts, NonBlank)
    IN  [i \in 1..Len(kept) |-> Lower(Strip(kept[i]))]

\* exactly two non-empty options, the two words of one pair, in either order
IsRecognizedPair(opts) ==
    LET ne == Normalized(opts)
    IN  /\ Len(ne) = 2
        /\ \E p \in RecognizedPairs : {ne[1], ne[2]} = {p[1], p[2]}

C4_MultisetPreserved ==
    pc_shuffle = "shuffled" =>
        /\ Len(options) = Len(options_before)
        /\ \A x \in Range(options) \cup Range(options_before) :
              Count(options, x) = Count(options_before, x)

\* a shuffle that changed the order of a list holding an empty and a
\* whitespace-only entry next to two different options
C4_Witness ==
    /\ pc_shuffle = "shuffled"
    /\ options # options_before
    /\ <<>> \in Range(options_before)
    /\ <<" ">> \in Range(options_before)
    /\ Cardinality({x \in Range(options_before) : NonBlank(x)}) = 2

\* the options of the list the shuffle was given that it permutes and that it
\* sets aside: an option is empty when opt.strip() is
NonEmptyBefore == SelectSeq(options_before, NonBlank)
EmptyBefore == SelectSeq(options_before, Blank)

\* slots 0..k-1 hold the k non-empty options in some order and slots k..3 the
\* empty ones in the order they had
PaddingKeptLast ==
    LET k == Len(NonEmptyBefore)
    IN  /\ \E perm \in Perms(k) : \A i \in 1..k : options[i] = NonEmptyBefore[perm[i]]
        /\ SubSeq(options, k + 1, Len(options)) = EmptyBefore

C10_SamePairOnly ==
    pc_shuffle = "classified" => (is_true_false <=> IsRecognizedPair(options))

\* C10, amended: _is_true_false_question is true iff there are exactly two
\* non-empty options and, trimmed and lower-cased, one of them is a word for
\* true and the other a word for false of the lexicon, in either order and
\* not necessarily of the same pair.
C10_TrueWordAndFalseWord ==
    pc_shuffle = "classified" =>
        (is_true_false <=>
            LET ne == Normalized(options)
            IN  /\ Len(ne) = 2
                /\ \E t \in LexiconTrue, f \in LexiconFalse : {ne[1], ne[2]} = {t, f})

\* a list classified as true/false whose two words come from different pairs,
\* written in different cases
C10_Witness ==
    /\ pc_shuffle = "classified"
    /\ is_true_false
    /\ ~IsRecognizedPair(options)
    /\ Normalized(options) # SelectSeq(options, NonBlank)

\* the source options of question n of the content: lines 1..4 of its block
SourceOptions(n) == Slice(QuestionBlocks(content)[n], 1, 5)

\* C9: with shuffling enabled, every question parsed by parse_from_string
\* whose options are a recognized true/false pair (any language, any case)
\* keeps its options in source order and has correct_answer 0.
C9_TrueFalseExempt ==
    (pc_parser = "parsed" /\ parser.shuffle_options /\ questions.err = "none") =>
        \A n \in 1..Len(questions.val) :
            IsRecognizedPair(SourceOptions(n)) =>
                /\ questions.val[n].options = SourceOptions(n) \o <<<<>>, <<>>>>
                /\ questions.val[n].correct_answer = 0

\* a parse with shuffling enabled of a true/false question not written in
\* lower case, next to a question whose options were shuffled
C9_Witness ==
    /\ pc_parser = "parsed"
    /\ parser.shuffle_options
    /\ questions.err = "none"
    /\ \E n, m \in 1..Len(questions.val) :
          /\ IsRecognizedPair(SourceOptions(n))
          /\ Lower(SourceOptions(n)[1]) # SourceOptions(n)[1]
          /\ questions.val[n].correct_answer = 0
          /\ questions.val[m].correct_answer > 0
          /\ questions.val[m].options # Padded(SourceOptions(m))

\* C22: shuffle determinism. Two executions of the shuffle on equal option
\* lists, each made right after seeding the generator with the same seed,
\* leave the same option order and return the same new_correct_index,
\* whatever other shuffles ran in between.
C22_ShuffleDeterminism ==
    \A a, b \in shuffle_runs :
        a.seed = b.seed =>
            /\ a.options = b.options
            /\ a.new_correct_index = b.new_correct_index

-----------------------------------------------------------------------------
(* Properties of the generator. *)

\* the correct_answer values of the loaded questions, in order
LoadedAnswers ==
    [i \in 1..Len(generator._parsed_questions.value) |->
        generator._parsed_questions.value[i].correct_answer]

\* C2: end-to-end recovery. For any accepted question set and any password
\* with an alphabet character, the QR data is built, and decrypt_qr_code on it
\* with the same password returns the number of loaded questions, config.total
\* and the questions' correct_answer values in order.
C2_AnswerKeyRecovery ==
    HasAlphabetChar(config.password) =>
        /\ raised \in {"none", "ExamGeneratorError"}
        /\ scanned # None =>
              /\ scanned.value.err = "none"
              /\ scanned.value.val.num_questions = Len(generator._parsed_questions.value)
              /\ scanned.value.val.total_points = config.total
              /\ scanned.value.val.answers = LoadedAnswers

\* C2 for the question sets whose correct_answer values are all in 0..3
C2_RecoveryWithinFourLetters ==
    (HasAlphabetChar(config.password) /\ generator._parsed_questions # None
        /\ \A i \in 1..Len(LoadedAnswers) : LoadedAnswers[i] \in 0..3) =>
        /\ raised \in {"none", "ExamGeneratorError"}
        /\ scanned # None =>
              /\ scanned.value.err = "none"
              /\ scanned.value.val.num_questions = Len(generator._parsed_questions.value)
              /\ scanned.value.val.total_points = config.total
              /\ scanned.value.val.answers = LoadedAnswers

\* the letters run of the plaintext payload behind the generator's QR data
EmittedLetters == SplitOn(QrPlainData(generator, config), "_")[3]

\* C12: encoding fails whenever a correct index is outside [0,3]; in
\* particular, ExamGenerator never emits a QR payload whose letters run holds a
\* character other than A, B, C, D.
C12_OnlyLettersAToD ==
    generator._qr_data # None =>
        \A i \in 1..Len(EmittedLetters) : EmittedLetters[i] \in {"A", "B", "C", "D"}

\* the plaintext payload behind the generator's QR data and its parts
EmittedPayload == QrPlainData(generator, config)
EmittedParts == SplitOn(EmittedPayload, "_")

\* C20: canonical encoding. For n loaded questions (at most max_questions of
\* them) with correct_answer values in 0..3 and config total p, the plaintext
\* built by _get_qr_data is 'Q' + decimal(n) + '_P' + decimal(p) + '_' +
\* letters, with one letter per question, A, B, C, D for 0, 1, 2, 3; it is
\* never of the legacy packed form, and the QR data is its encryption.
C20_CanonicalEncoding ==
    (generator._qr_data # None /\ \A i \in 1..Len(LoadedAnswers) : LoadedAnswers[i] \in 0..3) =>
        /\ Len(LoadedAnswers) <= generator.max_questions
        /\ Len(EmittedParts) = 3
        /\ StartsWith(EmittedParts[1], "Q")
        /\ IsDecimalOf(Tail(EmittedParts[1]), Len(LoadedAnswers))
        /\ StartsWith(EmittedParts[2], "P")
        /\ IsDecimalOf(Tail(EmittedParts[2]), config.total)
        /\ Len(EmittedParts[3]) = Len(LoadedAnswers)
        /\ \A i \in 1..Len(LoadedAnswers) :
              EmittedParts[3][i] = <<"A", "B", "C", "D">>[LoadedAnswers[i] + 1]
        /\ ~IsLegacyPacked(EmittedPayload)
        /\ decrypt_answer_data(generator._qr_data.value, config.password) = Returned(EmittedPayload)

\* QR data built for two questions whose correct answers are D and B, with a
\* total of three digits
C20_Witness ==
    /\ generator._qr_data # None
    /\ LoadedAnswers = <<3, 1>>
    /\ config.total = 100
    /\ EmittedPayload = <<"Q", "2", "_", "P", "1", "0", "0", "_", "D", "B">>

\* the first character of a password that is in the alphabet
FirstAlphabetChar(pw) ==
    pw[CHOOSE i \in 1..Len(pw) :
          /\ pw[i] \in Range(ALPHABET)
          /\ \A j \in 1..(i - 1) : pw[j] \notin Range(ALPHABET)]

ValueErrors ==
    {"ValueError: Invalid QR data format",
     "ValueError: Invalid QR data format - expected 3 parts",
     "ValueError: Invalid questions part",
     "ValueError: Invalid points part",
     "ValueError: invalid literal for int()",
     "ValueError: Expected {num_questions} answers, got {len(answers_string)}",
     "ValueError: Invalid answer letter"}

\* the QR data of the generator was tried with a password whose first
\* alphabet character is not that of the configured password
WrongFirstCharacter ==
    /\ attempt # None
    /\ generator._qr_data # None
    /\ HasAlphabetChar(config.password)
    /\ HasAlphabetChar(attempt.value.password)
    /\ FirstAlphabetChar(attempt.value.password) # FirstAlphabetChar(config.password)

\* C29: wrong-password detection by shape. A payload starting with 'Q' and
\* encrypted with password k never gives a summary to decrypt_qr_code with a
\* password whose first alphabet character differs from that of k: the
\* first decrypted character is not 'Q' and the call fails with ValueError.
C29_WrongPasswordDetected ==
    WrongFirstCharacter =>
        /\ QrPlainData(generator, config)[1] = "Q"
        /\ decrypt_answer_data(generator._qr_data.value, attempt.value.password).val[1] # "Q"
        /\ attempt.value.outcome.err \in ValueErrors

\* a wrong password that differs from the right one only in its first
\* character was tried, and a right one returned the summary
C29_Witness ==
    /\ WrongFirstCharacter
    /\ config.password = <<"k", "9">>
    /\ attempt.value.password = <<"K", "9">>
    /\ scanned # None
    /\ scanned.value.err = "none"

\* C30: every ExamConfig constructed successfully, directly or through
\* ExamConfigBuilder.build, holds a non-empty password, so the QR encryption
\* of ExamGenerator with config.password never fails for an empty password.
C30_NonEmptyPassword ==
    /\ Len(config.password) > 0
    /\ raised = "EncryptionError" => HasAlphabetChar(config.password)

\* what the constructor does ensure: the password handed to it was not empty
\* and the stored password has no whitespace at its ends
C30_StoredPasswordStripped ==
    /\ config.password = Strip(config.password)
    /\ \E c \in ConfigInputs :
          /\ Len(c[2]) > 0
          /\ config = NewExamConfig(c[1], c[2]).val

-----------------------------------------------------------------------------
(* Properties of the generator and its temporary files. *)

\* the letters of the payload behind the QR image embedded in a document
DocumentLetters(d) ==
    SplitOn(decrypt_answer_data(d.qr.value, config.password).val, "_")[3]

\* the QR image of a document encodes the answers of the questions it renders
QrMatchesQuestions(d) ==
    /\ d.qr # None
    /\ decrypt_answer_data(d.qr.value, config.password).err = "none"
    /\ Len(SplitOn(decrypt_answer_data(d.qr.value, config.password).val, "_")) = 3
    /\ Len(DocumentLetters(d)) = Len(d.questions)
    /\ \A i \in 1..Len(d.questions) :
          DocumentLetters(d)[i] = ChrFromA(d.questions[i].correct_answer)

\* all documents generated since the last successful load render the same
\* questions and embed the same QR image, which encodes their answers
DocumentsConsistent ==
    \A d, e \in documents :
        /\ d.questions = e.questions
        /\ d.qr = e.qr
        /\ QrMatchesQuestions(d)

\* C23: ExamGenerator consistency. For any sequence of generate_student_exam,
\* generate_answer_key and generate_both calls, with cleanup() possibly called
\* in between and no load or set_questions call in between, every call
\* renders the same question list and embeds the same QR payload, whose
\* letters are the correct_answer values of the rendered questions.
C23_GenerateConsistency == DocumentsConsistent

\* C23 in the runs where no temporary file was deleted from outside and no
\* deletion failed
C23_ConsistencyWithoutFaults == faults = {} => DocumentsConsistent

\* both kinds of document generated, with a cleanup since the first
C23_WithoutFaultsWitness ==
    /\ faults = {}
    /\ {d.kind : d \in documents} = {"student", "answer_key"}
    /\ Len(files) = 2
    /\ files[1] = None
    /\ Len(generator._parsed_questions.value) = 2

Loads == {"set_questions", "load_questions_from_string", "load_questions_from_file"}

\* the QR data built from the questions the generator holds
FreshQrData == BuildQrData(generator, config)

\* C24: cache invalidation. After a successful load_questions_from_file,
\* load_questions_from_string or set_questions the cached QR payload and
\* the cached QR image path are both cleared, and the generate_* calls that
\* follow embed a QR image built from the newly loaded questions, also when
\* the previous image was deleted from outside or its deletion failed.
C24_CacheInvalidation ==
    /\ (last_call \in Loads /\ raised = "none") =>
            /\ generator._qr_data = None
            /\ generator._qr_image_path = None
    /\ \A d \in documents :
            /\ FreshQrData.err = "none"
            /\ d.qr = Some(FreshQrData.val)

\* C24 for the loads during which no image was missing and no deletion
\* failed
C24_InvalidationWithoutFaults == faults = {} => C24_CacheInvalidation

\* a second load, made while a QR image was cached, and a document generated
\* after it
C24_WithoutFaultsWitness ==
    /\ faults = {}
    /\ documents # {}
    /\ Len(files) = 2
    /\ files[1] = None
    /\ generator._qr_image_path = Some(2)

\* C27: temp-file cleanup. After cleanup() returns in a run where every file
\* deletion succeeded, _qr_image_path is None, _temp_files is empty and none
\* of the temporary files created before exists.
C27_CleanupLeavesNothing ==
    (last_call = "cleanup" /\ "remove failed" \notin faults) =>
        /\ generator._qr_image_path = None
        /\ generator._temp_files = <<>>
        /\ \A name \in 1..Len(files) : ~Exists(files, name)

\* what does hold after such a cleanup: no path is cached and no temporary
\* file exists, unless the image was deleted from outside
C27_NoFileLeft ==
    (last_call = "cleanup" /\ faults = {}) =>
        /\ generator._qr_image_path = None
        /\ \A name \in 1..Len(files) : ~Exists(files, name)

\* C28: a failed load leaves the state unchanged. If load_questions_from_string,
\* load_questions_from_file or set_questions raises ExamGeneratorError, the
\* loaded questions, the cached QR payload, the cached QR image path and the
\* tracked temporary files are what they were before the call, and so are
\* the files themselves: no partial question list is stored.
C28_FailedLoadLeavesState ==
    [][(/\ raised' = "ExamGeneratorError"
        /\ \/ last_call' = "set_questions" /\ SetFewQuestions
           \/ last_call' = "load_questions_from_string" /\ LoadFewFromString
           \/ last_call' = "load_questions_from_file" /\ LoadFewFromFile) =>
        /\ generator'._parsed_questions = generator._parsed_questions
        /\ generator'._qr_data = generator._qr_data
        /\ generator'._qr_image_path = generator._qr_image_path
        /\ generator'._temp_files = generator._temp_files
        /\ files' = files]_vars

\* a load has failed on a generator that holds questions, QR data, a QR
\* image and a tracked file
C28_Witness ==
    /\ last_call \in Loads
    /\ raised = "ExamGeneratorError"
    /\ generator._parsed_questions # None
    /\ generator._qr_data # None
    /\ generator._qr_image_path # None
    /\ generator._temp_files # <<>>
    /\ Exists(files, generator._qr_image_path.value)

-----------------------------------------------------------------------------
(* Properties of the first generator. *)

\* the correct_answer values of the questions rendered in a PDF
RenderedAnswers(pdf) ==
    [i \in 1..Len(pdf.value.questions) |-> pdf.value.questions[i].correct_answer]

\* the option lists of the questions rendered in a PDF
RenderedOptions(pdf) ==
    [i \in 1..Len(pdf.value.questions) |-> pdf.value.questions[i].options]

\* generate_pdf was called and then generate_answer_key_pdf, with shuffling
StudentThenAnswerKey ==
    /\ test_generator.shuffle_options
    /\ legacy_calls = <<"generate_pdf", "generate_answer_key_pdf">>

\* C25: consistency of the first generator. With shuffle_options enabled,
\* after generate_pdf followed by generate_answer_key_pdf the answers encoded
\* in the QR payload are the correct_answer indices of the questions of the
\* student PDF and of the questions of the answer-key PDF, and both PDFs
\* show the options of each question in the same order.
C25_LegacyConsistency ==
    StudentThenAnswerKey =>
        /\ answer_key_pdf.value.qr = student_pdf.value.qr
        /\ IsLegacyPacked(student_pdf.value.qr)
        /\ LegacySummary(student_pdf.value.qr).answers = RenderedAnswers(student_pdf)
        /\ LegacySummary(student_pdf.value.qr).answers = RenderedAnswers(answer_key_pdf)
        /\ RenderedOptions(student_pdf) = RenderedOptions(answer_key_pdf)

\* what does hold: both PDFs embed the same QR payload, of the packed form,
\* for as many questions as each of them renders
C25_SameQrInBoth ==
    StudentThenAnswerKey =>
        /\ answer_key_pdf.value.qr = student_pdf.value.qr
        /\ IsLegacyPacked(student_pdf.value.qr)
        /\ LegacySummary(student_pdf.value.qr).num_questions = Len(student_pdf.value.questions)
        /\ Len(answer_key_pdf.value.questions) = Len(student_pdf.value.questions)

====
